---- MODULE Spec2Model ----
(***************************************************************************)
(* A model of csp_adapter_symphony: the SymphonyRoomMapper (the room       *)
(* name <-> stream id cache of adapter_config.py) under concurrent         *)
(* callers; the reader side of adapter.py (room resolution at start, the   *)
(* event listener and its filter is_accepting_event, the translation of    *)
(* events into SymphonyMessage records with their mentions, the inbound    *)
(* queue and its drain into the graph, and the life of the reader: start,  *)
(* stop, _run, _async_run and the task of _process_queue); the writer side *)
(* (send_symphony_message_async step by step, the _symphony_write node,    *)
(* its queue and the thread that drains it); and _set_presence_sync.       *)
(*                                                                         *)
(* Python strings are sequences of one-character strings, so that len(),   *)
(* the " " in s test and == are computed as the code computes them.        *)
(***************************************************************************)
EXTENDS Naturals, Sequences, FiniteSets, TLC

VARIABLES
    name_to_id,      \* SymphonyRoomMapper._name_to_id : dict str -> str
    id_to_name,      \* SymphonyRoomMapper._id_to_name : dict str -> str
    stream_service,  \* SymphonyRoomMapper._stream_service (None until set)
    pc,              \* per thread: where it is in an async mapper call
    lastOp,          \* the last mapper / listener operation and what it returned
    rooms,           \* SymphonyReaderPushAdapterImpl._rooms (room names subscribed)
    todo,            \* the rooms the loop of _async_run has not resolved yet
    room_ids,        \* SymphonyReaderPushAdapterImpl._room_ids (the allow-set)
    rpc,             \* position of the reader worker in _async_run
    message_queue,   \* SymphonyReaderPushAdapterImpl._message_queue
    pushed,          \* the batches handed to push_tick, in order
    events,          \* number of events the datafeed has delivered
    enqueued,        \* the messages the listener has put on the queue, in order
    running,         \* SymphonyReaderPushAdapterImpl._running
    rerror,          \* SymphonyReaderPushAdapterImpl._error ("-" is None)
    loop,            \* SymphonyReaderPushAdapterImpl._loop and its state
    rthread,         \* the thread of _run; "exited" once os._exit was called
    host,            \* position of the host (the graph) in start() and stop()
    stops,           \* number of calls of stop()
    drain,           \* position of the task of _process_queue
    batch,           \* _process_queue: the list messages
    exit_msg,        \* SymphonyReaderPushAdapterImpl._exit_msg
    prs,             \* the frame of the running _set_presence_sync
    presence_log,    \* the calls of _set_presence_sync that have returned
    ssl_patched,     \* Configuration.__init__ of the BDK is the patched one
    ssl_configs,     \* the SymphonyAdapterConfig objects made, in order
    config,          \* SymphonyAdapterConfig: bdk_config, error_room, inform_client
    snd,             \* the frame of the running send_symphony_message_async
    outbox,          \* the calls of message_service.send_message, in order
    sends,           \* number of calls of send_symphony_message_async
    s_queue,         \* _symphony_write: s_queue (None is the stop sentinel)
    unfinished,      \* s_queue.unfinished_tasks (what s_queue.join waits for)
    wnode,           \* position of the _symphony_write node
    worker,          \* position of the thread of _send_messages_thread
    accepted,        \* the messages the node has put on s_queue, in order
    attempted        \* the messages handed to send_symphony_message_async

dirVars  == <<name_to_id, id_to_name, stream_service>>
lifeVars == <<running, rerror, loop, rthread, host, stops, drain, batch,
              exit_msg>>
presVars == <<prs, presence_log>>
sslVars  == <<ssl_patched, ssl_configs>>
feedVars == <<rooms, todo, room_ids, rpc, message_queue, pushed, events,
              enqueued, lifeVars, presVars, sslVars>>
sendVars == <<config, snd, outbox, sends>>
writeVars == <<s_queue, unfinished, wnode, worker, accepted, attempted>>
outVars  == <<sendVars, writeVars>>
vars     == <<name_to_id, id_to_name, stream_service, pc, lastOp,
              rooms, todo, room_ids, rpc, message_queue, pushed, events,
              enqueued, running, rerror, loop, rthread, host, stops, drain,
              batch, exit_msg, prs, presence_log, ssl_patched, ssl_configs,
              config, snd, outbox, sends,
              s_queue, unfinished, wnode, worker, accepted, attempted>>

----------------------------------------------------------------------------
(* Bounds of the model. *)

\* longest list of rooms one search_rooms call returns in the model
MaxResults == 2
\* events the datafeed delivers in one run of the reader
MaxEvents == 2

(* Program constants. *)

\* get_room_id: len(room_name) > 20
IdShapeLen == 20

----------------------------------------------------------------------------
(* Strings. *)

RECURSIVE Rep(_, _)
Rep(c, n) == IF n = 0 THEN <<>> ELSE <<c>> \o Rep(c, n - 1)

\* Python None: no string (every string is a sequence of one-character strings)
None == <<"None">>

\* Python truthiness of an Optional[str]
Truthy(x) == x # None /\ x # <<>>

\* c in s
Contains(s, c) == \E k \in 1..Len(s) : s[k] = c

\* s.startswith(p)
StartsWith(s, p) == Len(p) <= Len(s) /\ SubSeq(s, 1, Len(p)) = p

Whitespace == {" ", "\t", "\n"}

Foo        == <<"F", "o", "o">>
FooX       == <<"F", "o", "o", " ", "X">>
Alice      == <<"A", "l", "i", "c", "e">>
U42        == <<"4", "2">>
S1         == <<"s", "1">>
S2         == <<"s", "2">>
\* 21 characters, no space: looks like a stream id
Long21     == Rep("a", IdShapeLen + 1)
\* 20 characters, no space: one short of looking like a stream id
Short20    == Rep("b", IdShapeLen)
\* 21 characters with a space
LongSpace  == Rep("c", 10) \o <<" ">> \o Rep("c", 10)
\* 21 characters with a tab and no space
LongTab    == Rep("d", 10) \o <<"\t">> \o Rep("d", 10)

----------------------------------------------------------------------------
(* Inputs of the model. *)

Threads     == {"t1", "t2"}
\* names and ids callers register by hand
RegNames    == {Foo, FooX}
RegIds      == {S1, S2}
\* names looked up synchronously
LookupNames == RegNames \cup {Long21, Short20, LongSpace, LongTab}
\* names and ids resolved through the stream service
AsyncNames  == {Foo, FooX, Long21}
AsyncIds    == {S1, S2}
\* what search_rooms may return: a room is its room_attributes.name and its
\* room_system_info.id, None standing for a missing room_attributes or
\* room_system_info
FoundRooms  == { [name |-> Foo,  id |-> S1], [name |-> Foo,  id |-> S2],
                 [name |-> FooX, id |-> S1], [name |-> None, id |-> S1],
                 [name |-> Foo,  id |-> None] }
SearchResults == UNION { [1..k -> FoundRooms] : k \in 0..MaxResults }
\* what get_room_info may return: None, or room_attributes.name (None for a
\* missing room_attributes)
NoAttrs     == <<"NoAttrs">>
InfoResults == {None, NoAttrs, Foo, FooX}
\* bdk.streams(): the stream service of an open BDK session
StreamService == <<"bdk.streams">>
\* bdk.streams() of the session a worker opened with `async with
\* SymphonyBdk(bdk_config) as bdk`: the reader's, the sender's
ServiceOf(session) == <<"bdk.streams", session>>
\* what a collaborator may raise (all subclasses of Exception)
Excs        == {"ApiException", "TimeoutError"}

----------------------------------------------------------------------------
(* SymphonyRoomMapper. A directory is the pair of its two dicts. *)

Dir == [n2i |-> name_to_id, i2n |-> id_to_name]

\* d[k] = v on a dict
Put(d, k, v) == [x \in (DOMAIN d) \cup {k} |-> IF x = k THEN v ELSE d[x]]

\* the stream-id heuristic of get_room_id
LooksLikeStreamId(room_name) ==
    Len(room_name) > IdShapeLen /\ ~Contains(room_name, " ")

\* del d[k] on a dict
Del(d, k) == [x \in (DOMAIN d) \ {k} |-> d[x]]

get_room_id(n2i, room_name) ==
    IF room_name \in DOMAIN n2i THEN n2i[room_name]
    ELSE IF LooksLikeStreamId(room_name) THEN room_name
    ELSE None

get_room_name(i2n, room_id) ==
    IF room_id \in DOMAIN i2n THEN i2n[room_id] ELSE None

\* register_room with dict.setdefault in place of the assignments: an entry
\* that exists is kept
register_room_setdefault(d, room_name, room_id) ==
    [n2i |-> IF room_name \in DOMAIN d.n2i THEN d.n2i
             ELSE Put(d.n2i, room_name, room_id),
     i2n |-> IF room_id \in DOMAIN d.i2n THEN d.i2n
             ELSE Put(d.i2n, room_id, room_name)]

\* register_room that drops the name the id had before, without checking
\* that it is another name
register_room_evict(d, room_name, room_id) ==
    LET n2i == Put(d.n2i, room_name, room_id) IN
    [n2i |-> IF room_id \in DOMAIN d.i2n THEN Del(n2i, d.i2n[room_id]) ELSE n2i,
     i2n |-> Put(d.i2n, room_id, room_name)]

register_room(d, room_name, room_id) ==
    [n2i |-> Put(d.n2i, room_name, room_id),
     i2n |-> Put(d.i2n, room_id, room_name)]

\* set_im_id that writes name_to_id only
set_im_id_one_way(d, user_identifier, stream_id) ==
    [n2i |-> Put(d.n2i, user_identifier, stream_id),
     i2n |-> d.i2n]

set_im_id(d, user_identifier, stream_id) ==
    [n2i |-> Put(d.n2i, user_identifier, stream_id),
     i2n |-> Put(d.i2n, stream_id, user_identifier)]

\* the loop of get_room_id_async over results.rooms: the id of the first room
\* that has attributes and system info and whose name is room_name, else None
\* the match of a search result by prefix instead of equality
PrefixMatch(room, room_name) ==
    room.name # None /\ room.id # None /\ StartsWith(room.name, room_name)

ExactMatch(room, room_name) ==
    room.name # None /\ room.id # None /\ room.name = room_name

SearchMatch(results, room_name) ==
    LET hits == { k \in 1..Len(results) : ExactMatch(results[k], room_name) }
    IN  IF hits = {} THEN None
        ELSE results[CHOOSE k \in hits : \A j \in hits : k <= j].id

----------------------------------------------------------------------------
(* Threads and the record of the last operation. *)

\* an await placed inside the with block of the lookup before it
held_at_await_kept(call) == TRUE
\* whether the caller holds self._lock when it awaits the collaborator: the
\* with block of the cache lookup has ended (lines 328-336, 384-385)
held_at_await(call) == FALSE

\* holds: the thread is inside a `with self._lock:` block
Idle == [at |-> "idle", key |-> None, ret |-> None, holds |-> FALSE]
Done(k, r) == [at |-> "done", key |-> k, ret |-> r, holds |-> FALSE]
Awaiting(call, k) ==
    [at |-> call, key |-> k, ret |-> None, holds |-> held_at_await(call)]

\* threading.Lock: `with self._lock:` is entered only when no thread is
\* inside such a block
LockFree == \A u \in DOMAIN pc : ~pc[u].holds

\* op: the operation; t: the calling thread; key, val: its arguments;
\* ret: what it returned; res: what the collaborator returned; exc: what the
\* collaborator raised; raised: whether the operation raised to its caller;
\* flag: cache hit of a lookup / pair already registered
Op(op, t, key, val, ret, res, exc, raised, flag) ==
    [op |-> op, t |-> t, key |-> key, val |-> val, ret |-> ret, res |-> res,
     exc |-> exc, raised |-> raised, flag |-> flag]

NoOp == Op("init", "-", None, None, None, None, "-", FALSE, FALSE)

SetDir(d) == name_to_id' = d.n2i /\ id_to_name' = d.i2n

----------------------------------------------------------------------------
(* Operations of the mapper, by any thread that is not inside a call. *)

SetStreamService(t) ==
    /\ pc[t].at = "idle"
    /\ stream_service' = StreamService
    /\ lastOp' = Op("set_stream_service", t, None, None, None, None, "-", FALSE, FALSE)
    /\ UNCHANGED <<name_to_id, id_to_name, pc>>
    /\ UNCHANGED <<feedVars, outVars>>

\* get_room_id that caches the id-shaped name it returns
GetRoomIdCaching(t, room_name) ==
    LET ret == get_room_id(name_to_id, room_name) IN
    /\ pc[t].at = "idle"
    /\ LockFree
    /\ lastOp' = Op("get_room_id", t, room_name, None, ret, None, "-", FALSE,
                    room_name \in DOMAIN name_to_id)
    /\ SetDir(IF ret = None THEN Dir ELSE register_room(Dir, room_name, ret))
    /\ UNCHANGED <<stream_service, pc>>
    /\ UNCHANGED <<feedVars, outVars>>

GetRoomId(t, room_name) ==
    /\ pc[t].at = "idle"
    /\ LockFree
    /\ lastOp' = Op("get_room_id", t, room_name, None,
                    get_room_id(name_to_id, room_name), None, "-", FALSE,
                    room_name \in DOMAIN name_to_id)
    /\ UNCHANGED <<name_to_id, id_to_name, stream_service, pc>>
    /\ UNCHANGED <<feedVars, outVars>>

GetRoomName(t, room_id) ==
    /\ pc[t].at = "idle"
    /\ LockFree
    /\ lastOp' = Op("get_room_name", t, room_id, None,
                    get_room_name(id_to_name, room_id), None, "-", FALSE,
                    room_id \in DOMAIN id_to_name)
    /\ UNCHANGED <<name_to_id, id_to_name, stream_service, pc>>
    /\ UNCHANGED <<feedVars, outVars>>

\* the pair is already registered, in both directions
Registered(d, name, id) ==
    /\ name \in DOMAIN d.n2i /\ d.n2i[name] = id
    /\ id \in DOMAIN d.i2n /\ d.i2n[id] = name

RegisterRoom(t, room_name, room_id) ==
    /\ pc[t].at = "idle"
    /\ LockFree
    /\ SetDir(register_room(Dir, room_name, room_id))
    /\ lastOp' = Op("register_room", t, room_name, room_id, None, None, "-", FALSE,
                    Registered(Dir, room_name, room_id))
    /\ UNCHANGED <<stream_service, pc>>
    /\ UNCHANGED <<feedVars, outVars>>

SetImId(t, user_identifier, stream_id) ==
    /\ pc[t].at = "idle"
    /\ LockFree
    /\ SetDir(set_im_id(Dir, user_identifier, stream_id))
    /\ lastOp' = Op("set_im_id", t, user_identifier, stream_id, None, None, "-", FALSE,
                    Registered(Dir, user_identifier, stream_id))
    /\ UNCHANGED <<stream_service, pc>>
    /\ UNCHANGED <<feedVars, outVars>>

----------------------------------------------------------------------------
(* get_room_id_async and get_room_name_async: the part before the await, *)
(* then the collaborator returning or raising.                           *)

\* get_room_id_async up to the await of search_rooms
get_room_id_async_call(t, room_name) ==
    LET cached == get_room_id(name_to_id, room_name) IN
    /\ pc[t].at = "idle"
    /\ LockFree
    /\ pc' = [pc EXCEPT ![t] =
                IF Truthy(cached) THEN Done(room_name, cached)
                ELSE IF stream_service = None THEN Done(room_name, None)
                ELSE Awaiting("search_rooms", room_name)]
    /\ lastOp' = Op("get_room_id_async", t, room_name, None,
                    IF Truthy(cached) THEN cached ELSE None, None, "-", FALSE,
                    room_name \in DOMAIN name_to_id)
    /\ UNCHANGED dirVars

\* get_room_id_async writing name_to_id only
get_room_id_async_resolve_partial(d, room_name, results) ==
    LET room_id == SearchMatch(results, room_name) IN
    IF room_id = None THEN [dir |-> d, ret |-> None]
    ELSE [dir |-> [n2i |-> Put(d.n2i, room_name, room_id), i2n |-> d.i2n],
          ret |-> room_id]

\* get_room_id_async returning the id it found without the write of lines
\* 366-368
get_room_id_async_resolve_uncached(d, room_name, results) ==
    [dir |-> d, ret |-> SearchMatch(results, room_name)]

\* get_room_id_async from the result of search_rooms on
get_room_id_async_resolve(d, room_name, results) ==
    LET room_id == SearchMatch(results, room_name) IN
    IF room_id = None THEN [dir |-> d, ret |-> None]
    ELSE [dir |-> [n2i |-> Put(d.n2i, room_name, room_id),
                   i2n |-> Put(d.i2n, room_id, room_name)],
          ret |-> room_id]

\* no except clause: the exception of the collaborator reaches the caller
async_except_missing(d, e) == [dir |-> d, ret |-> None, raised |-> TRUE]

\* the except clause of get_room_id_async and get_room_name_async
async_except(d, e) == [dir |-> d, ret |-> None, raised |-> e \notin Excs]

\* get_room_name_async up to the await of get_room_info
get_room_name_async_call(t, room_id) ==
    LET cached == get_room_name(id_to_name, room_id) IN
    /\ pc[t].at = "idle"
    /\ LockFree
    /\ pc' = [pc EXCEPT ![t] =
                IF Truthy(cached) THEN Done(room_id, cached)
                ELSE IF stream_service = None THEN Done(room_id, None)
                ELSE Awaiting("get_room_info", room_id)]
    /\ lastOp' = Op("get_room_name_async", t, room_id, None,
                    IF Truthy(cached) THEN cached ELSE None, None, "-", FALSE,
                    room_id \in DOMAIN id_to_name)
    /\ UNCHANGED dirVars

\* get_room_name_async from the result of get_room_info on
get_room_name_async_resolve(d, room_id, info) ==
    IF info = None \/ info = NoAttrs THEN [dir |-> d, ret |-> None]
    ELSE [dir |-> [n2i |-> Put(d.n2i, info, room_id),
                   i2n |-> Put(d.i2n, room_id, info)],
          ret |-> info]

GetRoomIdAsync(t, room_name) ==
    /\ get_room_id_async_call(t, room_name)
    /\ UNCHANGED <<feedVars, outVars>>

SearchRoomsReturn(t, results) ==
    LET r == get_room_id_async_resolve(Dir, pc[t].key, results) IN
    /\ pc[t].at = "search_rooms"
    /\ LockFree
    /\ SetDir(r.dir)
    /\ pc' = [pc EXCEPT ![t] = Done(pc[t].key, r.ret)]
    /\ lastOp' = Op("search_rooms_return", t, pc[t].key, None, r.ret, results,
                    "-", FALSE, FALSE)
    /\ UNCHANGED <<stream_service>>
    /\ UNCHANGED <<feedVars, outVars>>

SearchRoomsRaise(t, e) ==
    LET r == async_except(Dir, e) IN
    /\ pc[t].at = "search_rooms"
    /\ SetDir(r.dir)
    /\ pc' = [pc EXCEPT ![t] = Done(pc[t].key, r.ret)]
    /\ lastOp' = Op("search_rooms_raise", t, pc[t].key, None, r.ret, None,
                    e, r.raised, FALSE)
    /\ UNCHANGED <<stream_service>>
    /\ UNCHANGED <<feedVars, outVars>>

GetRoomNameAsync(t, room_id) ==
    /\ get_room_name_async_call(t, room_id)
    /\ UNCHANGED <<feedVars, outVars>>

GetRoomInfoReturn(t, info) ==
    LET r == get_room_name_async_resolve(Dir, pc[t].key, info) IN
    /\ pc[t].at = "get_room_info"
    /\ LockFree
    /\ SetDir(r.dir)
    /\ pc' = [pc EXCEPT ![t] = Done(pc[t].key, r.ret)]
    /\ lastOp' = Op("get_room_info_return", t, pc[t].key, None, r.ret, info,
                    "-", FALSE, FALSE)
    /\ UNCHANGED <<stream_service>>
    /\ UNCHANGED <<feedVars, outVars>>

GetRoomInfoRaise(t, e) ==
    LET r == async_except(Dir, e) IN
    /\ pc[t].at = "get_room_info"
    /\ SetDir(r.dir)
    /\ pc' = [pc EXCEPT ![t] = Done(pc[t].key, r.ret)]
    /\ lastOp' = Op("get_room_info_raise", t, pc[t].key, None, r.ret, None,
                    e, r.raised, FALSE)
    /\ UNCHANGED <<stream_service>>
    /\ UNCHANGED <<feedVars, outVars>>

\* the caller of an async lookup takes the result and goes on
Resume(t) ==
    /\ pc[t].at = "done"
    /\ pc' = [pc EXCEPT ![t] = Idle]
    /\ lastOp' = Op("resume", t, pc[t].key, None, pc[t].ret, None, "-", FALSE, FALSE)
    /\ UNCHANGED <<name_to_id, id_to_name, stream_service>>
    /\ UNCHANGED <<feedVars, outVars>>

----------------------------------------------------------------------------
(* The mapper under two concurrent callers. *)

\* the reader as __init__ leaves it (lines 280-290)
LifeIdle ==
    /\ running = FALSE /\ rerror = "-" /\ loop = "none"
    /\ rthread = "none" /\ host = "new" /\ stops = 0
    /\ drain = "none" /\ batch = <<>> /\ exit_msg = <<>>

\* the reader after start(), its thread inside _async_run
LifeStarted ==
    /\ running = TRUE /\ rerror = "-" /\ loop = "open"
    /\ rthread = "alive" /\ host = "started" /\ stops = 0
    /\ drain = "none" /\ batch = <<>> /\ exit_msg = <<>>

\* no _set_presence_sync is running
PresenceIdle == [at |-> "idle", value |-> "-", log |-> "-", raised |-> FALSE]
PresIdle == prs = PresenceIdle /\ presence_log = <<>>

\* no SymphonyAdapterConfig has been made, the BDK is as imported
SslIdle == ssl_patched = FALSE /\ ssl_configs = <<>>

ReaderIdle ==
    /\ rooms = {} /\ todo = {} /\ room_ids = {}
    /\ rpc = "new" /\ message_queue = <<>> /\ pushed = <<>> /\ events = 0
    /\ enqueued = <<>>
    /\ LifeIdle
    /\ PresIdle
    /\ SslIdle

\* SymphonyAdapterConfig: has_bdk_config is whether bdk_config is set;
\* error_room and inform_client default to None and False
Config(has_bdk_config, error_room, inform_client) ==
    [has_bdk_config |-> has_bdk_config, error_room |-> error_room,
     inform_client |-> inform_client]

\* no send_symphony_message_async is running. (known_im is no variable of
\* the code: it records, for the properties, the stream of the last IM event
\* the reader had translated when the call began.)
SendIdle == [at |-> "idle", msg |-> None, stream_id |-> None,
             error_stream_id |-> None, ret |-> FALSE, raised |-> FALSE,
             known_im |-> None]

\* the writer side before the graph starts
WriterIdle ==
    /\ snd = SendIdle /\ outbox = <<>> /\ sends = 0
    /\ s_queue = <<>> /\ unfinished = 0
    /\ wnode = "new" /\ worker = "new"
    /\ accepted = <<>> /\ attempted = <<>>

OutIdle ==
    /\ config = Config(TRUE, None, FALSE)
    /\ WriterIdle

Init ==
    /\ name_to_id = <<>> /\ id_to_name = <<>>
    /\ stream_service = None
    /\ pc = [t \in Threads |-> Idle]
    /\ lastOp = NoOp
    /\ ReaderIdle
    /\ OutIdle

Next ==
    \/ \E t \in Threads : SetStreamService(t)
    \/ \E t \in Threads, n \in LookupNames : GetRoomId(t, n)
    \/ \E t \in Threads, i \in RegIds : GetRoomName(t, i)
    \/ \E t \in Threads, n \in RegNames, i \in RegIds : RegisterRoom(t, n, i)
    \/ \E t \in Threads, n \in RegNames, i \in RegIds : SetImId(t, n, i)
    \/ \E t \in Threads, n \in AsyncNames : GetRoomIdAsync(t, n)
    \/ \E t \in Threads, rs \in SearchResults : SearchRoomsReturn(t, rs)
    \/ \E t \in Threads, e \in Excs : SearchRoomsRaise(t, e)
    \/ \E t \in Threads, i \in AsyncIds : GetRoomNameAsync(t, i)
    \/ \E t \in Threads, info \in InfoResults : GetRoomInfoReturn(t, info)
    \/ \E t \in Threads, e \in Excs : GetRoomInfoRaise(t, e)
    \/ \E t \in Threads : Resume(t)

Spec == Init /\ [][Next]_vars

----------------------------------------------------------------------------
(* Two threads resolving names that are not cached, each with one call of *)
(* get_room_id_async, started from a directory that holds at most an IM   *)
(* alias.                                                                 *)

RaceNames == {Foo, FooX}
RaceDirs  == { [n2i |-> <<>>, i2n |-> <<>>],
               set_im_id([n2i |-> <<>>, i2n |-> <<>>], Alice, S1),
               set_im_id([n2i |-> <<>>, i2n |-> <<>>], Alice, S2) }

RaceInit ==
    /\ \E d \in RaceDirs : name_to_id = d.n2i /\ id_to_name = d.i2n
    /\ stream_service \in {None, StreamService}
    /\ pc = [t \in Threads |-> Idle]
    /\ lastOp = NoOp
    /\ ReaderIdle
    /\ OutIdle

RaceNext ==
    \/ \E t \in Threads, n \in RaceNames : GetRoomIdAsync(t, n)
    \/ \E t \in Threads, rs \in SearchResults : SearchRoomsReturn(t, rs)
    \/ \E t \in Threads, e \in Excs : SearchRoomsRaise(t, e)

SpecRace == RaceInit /\ [][RaceNext]_vars

----------------------------------------------------------------------------
(* _get_user_mentions. A mention blob is message.data: a text that is      *)
(* empty, or not JSON, or the JSON text of a value. A JSON value is a      *)
(* record tagged by its Python type.                                       *)

\* entries of the top-level object of a blob in the model
MaxEntries == 2

\* s: the characters of a str, the decimal digits of a number; items: the
\* items of a dict (key k, value v) or of a list (no key)
JNull        == [t |-> "null", s |-> <<>>, items |-> <<>>]
JNum(digits) == [t |-> "num",  s |-> digits, items |-> <<>>]
JStr(s)      == [t |-> "str",  s |-> s, items |-> <<>>]
Item(k, v)   == [k |-> k, v |-> v]
JArr(values) == [t |-> "arr",  s |-> <<>>,
                 items |-> [k \in 1..Len(values) |-> Item("", values[k])]]
JObj(items)  == [t |-> "obj",  s |-> <<>>, items |-> items]

EmptyText    == [text |-> "empty",   value |-> JNull]
InvalidText  == [text |-> "invalid", value |-> JNull]
JsonText(v)  == [text |-> "json",    value |-> v]

MentionType  == <<"com.symphony.user.mention">>
OtherType    == <<"com.symphony.other">>

\* a == b of two parsed values (of the scalar types)
JEq(a, b) == a.t = b.t /\ a.s = b.s

\* key in d, and d.get(key, default)
HasKey(d, key) == \E k \in 1..Len(d.items) : d.items[k].k = key
DictGet(d, key, default) ==
    IF HasKey(d, key)
    THEN d.items[CHOOSE k \in 1..Len(d.items) : d.items[k].k = key].v
    ELSE default

\* str(v) of a scalar: a str is itself, a number its decimal digits
PyStr(v) == IF v.t \in {"str", "num"} THEN v.s ELSE <<"N", "o", "n", "e">>

\* the types a for loop can iterate over, and what it yields: the items of a
\* list, the characters of a str, the keys of a dict
Iterable == {"arr", "str", "obj"}
IterItems(x) ==
    IF x.t = "arr" THEN [k \in 1..Len(x.items) |-> x.items[k].v]
    ELSE IF x.t = "str" THEN [k \in 1..Len(x.s) |-> JStr(<<x.s[k]>>)]
    ELSE [k \in 1..Len(x.items) |-> JStr(<<x.items[k].k>>)]

\* the inner loop over id_list
RECURSIVE IdValues(_, _)
IdValues(id_list, user_mentions) ==
    IF id_list = <<>> THEN user_mentions
    ELSE LET id_item == Head(id_list) IN
         IdValues(Tail(id_list),
                  IF id_item.t = "obj" /\ HasKey(id_item, "value")
                  THEN Append(user_mentions,
                              PyStr(DictGet(id_item, "value", JNull)))
                  ELSE user_mentions)

\* the outer loop over payload_data.values(); iterating an id that is not
\* iterable raises TypeError and ends the loop
RECURSIVE MentionValues(_, _)
MentionValues(values, user_mentions) ==
    IF values = <<>> THEN [ret |-> user_mentions, exc |-> "-"]
    ELSE LET value == Head(values).v IN
         IF value.t = "obj"
              /\ JEq(DictGet(value, "type", JNull), JStr(MentionType))
         THEN LET id_list == DictGet(value, "id", JArr(<<>>)) IN
              IF id_list.t \in Iterable
              THEN MentionValues(Tail(values),
                                 IdValues(IterItems(id_list), user_mentions))
              ELSE [ret |-> user_mentions, exc |-> "TypeError"]
         ELSE MentionValues(Tail(values), user_mentions)

\* json.loads
json_loads(data) ==
    IF data.text = "json" THEN [value |-> data.value, exc |-> "-"]
    ELSE [value |-> JNull, exc |-> "JSONDecodeError"]

\* the exceptions _get_user_mentions catches
MentionsCaught == {"JSONDecodeError", "KeyError", "TypeError"}

\* the body of the try block: what it collected and what it raised
mentions_try(data) ==
    LET loaded == json_loads(IF data.text = "empty" THEN JsonText(JObj(<<>>))
                             ELSE data)
    IN  IF loaded.exc # "-" THEN [ret |-> <<>>, exc |-> loaded.exc]
        ELSE IF loaded.value.t # "obj"
             THEN [ret |-> <<>>, exc |-> "AttributeError"]
        ELSE MentionValues(loaded.value.items, <<>>)

get_user_mentions(data) ==
    LET r == mentions_try(data) IN
    [ret |-> r.ret, exc |-> IF r.exc \in MentionsCaught THEN "-" ELSE r.exc]

\* values of the top-level object: mention entries of the right shape, of
\* each wrong shape of the id field, and values that are no mention
IdItem(v)   == JObj(<<Item("value", v)>>)
Mention(id) == JObj(<<Item("type", JStr(MentionType)), Item("id", id)>>)
MentionEntries ==
    { Mention(JArr(<<IdItem(JStr(U42))>>)),
      Mention(JArr(<<IdItem(JNum(<<"7">>))>>)),
      Mention(JArr(<<JStr(U42)>>)),
      Mention(JArr(<<JObj(<<Item("other", JStr(U42))>>)>>)),
      Mention(JStr(U42)),
      Mention(IdItem(JStr(U42))),
      Mention(JNum(<<"5">>)),
      Mention(JNull),
      JObj(<<Item("type", JStr(MentionType))>>),
      JObj(<<Item("type", JStr(OtherType)),
             Item("id", JArr(<<IdItem(JStr(U42))>>))>>),
      JObj(<<Item("id", JArr(<<IdItem(JStr(U42))>>))>>),
      JStr(U42) }

\* top-level objects of up to MaxEntries entries, each under a key of its
\* own, and the top-level values that are no object
EntryKeys == <<"k1", "k2", "k3", "k4">>
ObjectBlobs ==
    UNION { { JsonText(JObj([k \in 1..n |-> Item(EntryKeys[k], f[k])])) :
                f \in [1..n -> MentionEntries] } : n \in 0..MaxEntries }
Blobs ==
    {EmptyText, InvalidText}
    \cup { JsonText(v) : v \in {JNull, JNum(<<"5">>), JStr(U42), JArr(<<>>),
                               JArr(<<Mention(JArr(<<IdItem(JStr(U42))>>))>>)} }
    \cup ObjectBlobs

----------------------------------------------------------------------------
(* The reader: _async_run resolves the subscribed rooms, then the listener *)
(* translates each event of the datafeed and _process_queue hands what the *)
(* listener queued to the graph.                                           *)

ReaderThread == "t1"

IM         == <<"I", "M">>
USER_ERROR == <<"U", "S", "E", "R", "_", "E", "R", "R", "O", "R">>
AliceMail  == <<"a", "@", "x">>
FormId     == <<"f", "1">>

\* room names given to subscribe()
SubNames   == {Foo, FooX}
\* streams of the pod: stream.stream_id and stream.stream_type
StreamIds   == {S1, S2}
StreamTypes == {"ROOM", "IM", "POST"}

\* An event of the datafeed. kind: V4MessageSent or V4SymphonyElementsAction;
\* has_message: event.message is set (always so for an elements action);
\* has_stream: the stream is set; has_user: initiator.user is set; data:
\* message.data or "", the mention blob of a message.
Event(kind, has_message, has_stream, sid, stype, has_user, data) ==
    [kind |-> kind, has_message |-> has_message, has_stream |-> has_stream,
     stream_id |-> sid, stream_type |-> stype, has_user |-> has_user,
     data |-> data,
     display_name |-> IF has_user THEN Alice ELSE None,
     email |-> IF has_user THEN AliceMail ELSE None,
     user_id |-> IF has_user THEN U42 ELSE None]

\* message.data of the events: none, one mention of a user, a JSON array
EventBlobs ==
    { EmptyText,
      JsonText(JObj(<<Item("k1", Mention(JArr(<<IdItem(JStr(U42))>>)))>>)),
      JsonText(JArr(<<>>)) }

\* (the messages of an unknown author carry no data in the model)
MessageEvents ==
    { Event("message_sent", TRUE, TRUE, sid, ty, TRUE, data) :
        sid \in StreamIds, ty \in StreamTypes, data \in EventBlobs }
    \cup { Event("message_sent", TRUE, TRUE, sid, ty, FALSE, EmptyText) :
             sid \in StreamIds, ty \in StreamTypes }
    \cup { Event("message_sent", FALSE, FALSE, None, "-", TRUE, EmptyText),
           Event("message_sent", TRUE, FALSE, None, "-", TRUE, EmptyText) }

ElementsEvents ==
    { Event("elements_action", TRUE, TRUE, sid, ty, u, EmptyText) :
        sid \in StreamIds, ty \in StreamTypes, u \in BOOLEAN }
    \cup { Event("elements_action", TRUE, FALSE, None, "-", TRUE, EmptyText) }

SymphonyMessage(user, user_email, user_id, tags, room, msg, form_id, stream_id) ==
    [user |-> user, user_email |-> user_email, user_id |-> user_id,
     tags |-> tags, room |-> room, msg |-> msg, form_id |-> form_id,
     stream_id |-> stream_id]

\* message.message of the message events
Hello == <<"H", "i">>

\* what a handler returns when it returns None, and when it raises
NoMessage(d)    == [ok |-> FALSE, msg |-> None, dir |-> d, exc |-> "-"]
Raising(d, exc) == [ok |-> FALSE, msg |-> None, dir |-> d, exc |-> exc]

\* Translate registering the display name only
translate_one_alias(ev, d, tags, msg, form_id) ==
    LET user_name  == IF ev.has_user THEN ev.display_name ELSE USER_ERROR
        user_email == IF ev.has_user THEN ev.email ELSE USER_ERROR
        user_id    == IF ev.has_user THEN ev.user_id ELSE USER_ERROR
    IN  [ok  |-> TRUE,
         exc |-> "-",
         msg |-> SymphonyMessage(user_name, user_email, user_id, tags,
                                 IF ev.stream_type = "IM" THEN IM
                                 ELSE ev.stream_id,
                                 msg, form_id, ev.stream_id),
         dir |-> IF ev.stream_type = "IM"
                 THEN set_im_id(d, user_name, ev.stream_id)
                 ELSE d]

\* Translate registering the stream of a ROOM event that has no cached name
\* under its own id
translate_registering_room(ev, d, tags, msg, form_id) ==
    LET r == translate_one_alias(ev, d, tags, msg, form_id)
        cached == get_room_name(d.i2n, ev.stream_id)
    IN  [r EXCEPT !.dir =
            IF ev.stream_type = "ROOM" /\ ~Truthy(cached)
            THEN register_room(d, ev.stream_id, ev.stream_id)
            ELSE IF ev.stream_type = "IM"
            THEN set_im_id(r.dir, r.msg.user_id, ev.stream_id)
            ELSE d]

\* Translate registering the aliases of an IM stream only when the event
\* has an author
translate_known_author_only(ev, d, tags, msg, form_id) ==
    LET r == translate_one_alias(ev, d, tags, msg, form_id) IN
    [r EXCEPT !.dir =
        IF ev.stream_type = "IM" /\ ev.has_user
        THEN set_im_id(r.dir, r.msg.user_id, ev.stream_id)
        ELSE d]

\* the part of both handlers from the user fields on: the message, and the
\* directory after the registration of an IM stream
Translate(ev, d, tags, msg, form_id) ==
    LET user_name  == IF ev.has_user THEN ev.display_name ELSE USER_ERROR
        user_email == IF ev.has_user THEN ev.email ELSE USER_ERROR
        user_id    == IF ev.has_user THEN ev.user_id ELSE USER_ERROR
        cached     == get_room_name(d.i2n, ev.stream_id)
        room_name  == IF ev.stream_type = "ROOM"
                      THEN (IF Truthy(cached) THEN cached ELSE ev.stream_id)
                      ELSE IF ev.stream_type = "IM" THEN IM
                      ELSE ev.stream_id
    IN  [ok  |-> TRUE,
         exc |-> "-",
         msg |-> SymphonyMessage(user_name, user_email, user_id, tags,
                                 room_name, msg, form_id, ev.stream_id),
         dir |-> IF ev.stream_type = "IM"
                 THEN set_im_id(set_im_id(d, user_name, ev.stream_id),
                                user_id, ev.stream_id)
                 ELSE d]

\* _handle_elements_action without the room filter
handle_elements_action_unfiltered(ev, ids, d) ==
    IF ~ev.has_stream THEN NoMessage(d)
    ELSE Translate(ev, d, <<>>, <<>>, FormId)

handle_message_sent(ev, ids, d) ==
    IF ~ev.has_message THEN NoMessage(d)
    ELSE IF ~ev.has_stream THEN NoMessage(d)
    ELSE IF ids # {} /\ ev.stream_id \notin ids THEN NoMessage(d)
    ELSE LET user_mentions == get_user_mentions(ev.data) IN
         IF user_mentions.exc # "-" THEN Raising(d, user_mentions.exc)
         ELSE Translate(ev, d, user_mentions.ret, Hello, <<>>)

handle_elements_action(ev, ids, d) ==
    IF ~ev.has_stream THEN NoMessage(d)
    ELSE IF ids # {} /\ ev.stream_id \notin ids THEN NoMessage(d)
    ELSE Translate(ev, d, <<>>, <<>>, FormId)

\* _async_run up to the loop over the rooms
ReaderStart ==
    /\ rpc = "new"
    /\ pc[ReaderThread].at = "idle"
    /\ stream_service' = ServiceOf("reader")
    /\ todo' = rooms
    /\ rpc' = "resolving"
    /\ lastOp' = Op("set_stream_service", ReaderThread, None, None, None, None,
                    "-", FALSE, FALSE)
    /\ UNCHANGED <<name_to_id, id_to_name, pc, rooms, room_ids, message_queue,
                   pushed, events, enqueued>>
    /\ UNCHANGED <<lifeVars, presVars, sslVars, outVars>>

\* one turn of the loop: the call of get_room_id_async for a room
ReaderResolve(room) ==
    /\ rpc = "resolving"
    /\ room \in todo
    /\ get_room_id_async_call(ReaderThread, room)
    /\ todo' = todo \ {room}
    /\ UNCHANGED <<rooms, room_ids, rpc, message_queue, pushed, events,
                   enqueued>>
    /\ UNCHANGED <<lifeVars, presVars, sslVars, outVars>>

\* the rest of the turn: the room id, if any, joins _room_ids
ReaderCollect ==
    /\ rpc = "resolving"
    /\ pc[ReaderThread].at = "done"
    /\ room_ids' = IF Truthy(pc[ReaderThread].ret)
                   THEN room_ids \cup {pc[ReaderThread].ret} ELSE room_ids
    /\ pc' = [pc EXCEPT ![ReaderThread] = Idle]
    /\ lastOp' = Op("resolve_room", ReaderThread, pc[ReaderThread].key, None,
                    pc[ReaderThread].ret, None, "-", FALSE,
                    Truthy(pc[ReaderThread].ret))
    /\ UNCHANGED <<name_to_id, id_to_name, stream_service, rooms, todo, rpc,
                   message_queue, pushed, events, enqueued>>
    /\ UNCHANGED <<lifeVars, presVars, sslVars, outVars>>

\* the listener is created and subscribed, the datafeed loop starts
ReaderListen ==
    /\ rpc = "resolving"
    /\ todo = {}
    /\ pc[ReaderThread].at = "idle"
    /\ rpc' = "listening"
    /\ lastOp' = Op("subscribe", ReaderThread, None, None, None, None, "-",
                    FALSE, FALSE)
    /\ UNCHANGED <<name_to_id, id_to_name, stream_service, pc, rooms, todo,
                   room_ids, message_queue, pushed, events, enqueued>>
    /\ UNCHANGED <<lifeVars, presVars, sslVars, outVars>>

\* CspRealTimeEventListener.on_message_sent
OnMessageSent(ev) ==
    LET r == handle_message_sent(ev, room_ids, Dir) IN
    /\ rpc = "listening"
    /\ events < MaxEvents
    /\ events' = events + 1
    /\ SetDir(r.dir)
    /\ message_queue' = IF r.ok THEN Append(message_queue, r.msg)
                        ELSE message_queue
    /\ enqueued' = IF r.ok THEN Append(enqueued, r.msg) ELSE enqueued
    /\ lastOp' = Op("on_message_sent", ReaderThread, ev.stream_id, None, r.msg,
                    ev, r.exc, r.exc # "-", r.ok)
    /\ UNCHANGED <<stream_service, pc, rooms, todo, room_ids, rpc, pushed>>
    /\ UNCHANGED <<lifeVars, presVars, sslVars, outVars>>

\* CspRealTimeEventListener.on_symphony_elements_action
OnSymphonyElementsAction(ev) ==
    LET r == handle_elements_action(ev, room_ids, Dir) IN
    /\ rpc = "listening"
    /\ events < MaxEvents
    /\ events' = events + 1
    /\ SetDir(r.dir)
    /\ message_queue' = IF r.ok THEN Append(message_queue, r.msg)
                        ELSE message_queue
    /\ enqueued' = IF r.ok THEN Append(enqueued, r.msg) ELSE enqueued
    /\ lastOp' = Op("on_symphony_elements_action", ReaderThread, ev.stream_id,
                    None, r.msg, ev, "-", FALSE, r.ok)
    /\ UNCHANGED <<stream_service, pc, rooms, todo, room_ids, rpc, pushed>>
    /\ UNCHANGED <<lifeVars, presVars, sslVars, outVars>>

\* one cycle of _process_queue: the queue is drained and, if it held
\* anything, the batch is pushed
ProcessQueue ==
    /\ rpc = "listening"
    /\ message_queue # <<>>
    /\ pushed' = Append(pushed, message_queue)
    /\ message_queue' = <<>>
    /\ lastOp' = Op("push_tick", ReaderThread, None, None, None, None, "-",
                    FALSE, FALSE)
    /\ UNCHANGED <<name_to_id, id_to_name, stream_service, pc, rooms, todo,
                   room_ids, rpc, events, enqueued>>
    /\ UNCHANGED <<lifeVars, presVars, sslVars, outVars>>

\* subscribe(rooms) on an adapter whose mapper is new or holds a room the
\* caller registered by hand
FeedDirs == { [n2i |-> <<>>, i2n |-> <<>>],
              register_room([n2i |-> <<>>, i2n |-> <<>>], Foo, S1) }

ReaderInit ==
    /\ \E d \in FeedDirs : name_to_id = d.n2i /\ id_to_name = d.i2n
    /\ stream_service = None
    /\ pc = [t \in Threads |-> Idle]
    /\ lastOp = NoOp
    /\ rooms \in SUBSET SubNames
    /\ todo = {} /\ room_ids = {}
    /\ rpc = "new" /\ message_queue = <<>> /\ pushed = <<>> /\ events = 0
    /\ enqueued = <<>>
    /\ LifeStarted
    /\ PresIdle
    /\ SslIdle
    /\ OutIdle

FeedNext ==
    \/ ReaderStart
    \/ \E room \in SubNames : ReaderResolve(room)
    \/ \E rs \in SearchResults : SearchRoomsReturn(ReaderThread, rs)
    \/ \E e \in Excs : SearchRoomsRaise(ReaderThread, e)
    \/ ReaderCollect
    \/ ReaderListen
    \/ \E ev \in MessageEvents : OnMessageSent(ev)
    \/ \E ev \in ElementsEvents : OnSymphonyElementsAction(ev)
    \/ ProcessQueue

SpecFeed == ReaderInit /\ [][FeedNext]_vars

----------------------------------------------------------------------------
(* _get_user_mentions applied to each blob. *)

GetUserMentions(data) ==
    LET r == get_user_mentions(data) IN
    /\ lastOp' = Op("get_user_mentions", ReaderThread, None, None, r.ret, data,
                    r.exc, r.exc # "-", r.ret # <<>>)
    /\ UNCHANGED <<dirVars, pc, feedVars, outVars>>

MentionsInit ==
    /\ name_to_id = <<>> /\ id_to_name = <<>>
    /\ stream_service = None
    /\ pc = [t \in Threads |-> Idle]
    /\ lastOp = NoOp
    /\ ReaderIdle
    /\ OutIdle

MentionsNext == \E data \in Blobs : GetUserMentions(data)

SpecMentions == MentionsInit /\ [][MentionsNext]_vars

----------------------------------------------------------------------------
(* CspRealTimeEventListener.is_accepting_event. A user id is an int or     *)
(* None; an object may lack the attribute that is read.                    *)

\* user ids of the model: 1..MaxIds
MaxIds == 7

\* an int, and None (None == None is True, an int never equals None)
IdOf(n) == [known |-> TRUE, n |-> n]
NoId    == [known |-> FALSE, n |-> 0]
UserIdValues == { IdOf(n) : n \in 1..MaxIds } \cup {NoId}

\* event.initiator: shape "no_attr" when reading event.initiator or
\* initiator.user.user_id raises AttributeError, "none" when the initiator
\* is None, "no_user" when initiator.user is None, else "user" with the id
Initiator(shape, id) == [shape |-> shape, user_id |-> id]
Initiators ==
    { Initiator(shape, NoId) : shape \in {"no_attr", "none", "no_user"} }
    \cup { Initiator("user", id) : id \in UserIdValues }

\* bot_info: None, an object without id, or an object with its id
BotInfo(shape, id) == [shape |-> shape, id |-> id]
BotInfos ==
    { BotInfo(shape, NoId) : shape \in {"none", "no_attr"} }
    \cup { BotInfo("info", id) : id \in UserIdValues }

\* lines 234-242
is_accepting_event(event, bot_info) ==
    IF event.shape = "no_attr" THEN [ret |-> TRUE, exc |-> "AttributeError"]
    ELSE LET initiator_id == IF event.shape = "user" THEN event.user_id
                             ELSE NoId
         IN  IF bot_info.shape = "no_attr"
             THEN [ret |-> TRUE, exc |-> "AttributeError"]
             ELSE LET bot_id == IF bot_info.shape = "info" THEN bot_info.id
                                ELSE NoId
                      is_from_bot == initiator_id = bot_id
                  IN  [ret |-> ~is_from_bot, exc |-> "-"]

IsAcceptingEvent(event, bot_info) ==
    LET r == is_accepting_event(event, bot_info) IN
    /\ lastOp' = Op("is_accepting_event", ReaderThread, None, bot_info, None,
                    event, r.exc, FALSE, r.ret)
    /\ UNCHANGED <<dirVars, pc, feedVars, outVars>>

AcceptNext == \E event \in Initiators, bot_info \in BotInfos :
                  IsAcceptingEvent(event, bot_info)

SpecAccept == MentionsInit /\ [][AcceptNext]_vars

----------------------------------------------------------------------------
(* MessageML text. *)

\* the characters of a TLA+ string constant, one by one, cannot be taken
\* apart, so each text is written as its sequence of characters
OpenTag  == <<"<", "m", "e", "s", "s", "a", "g", "e", "M", "L", ">">>
CloseTag == <<"<", "/", "m", "e", "s", "s", "a", "g", "e", "M", "L", ">">>

\* s.strip()
RECURSIVE LStrip(_)
LStrip(s) == IF s # <<>> /\ Head(s) \in Whitespace THEN LStrip(Tail(s)) ELSE s
RECURSIVE RStrip(_)
RStrip(s) == IF s # <<>> /\ s[Len(s)] \in Whitespace
             THEN RStrip(SubSeq(s, 1, Len(s) - 1)) ELSE s
Strip(s) == RStrip(LStrip(s))

\* s.replace(old, new): every occurrence of old, left to right
RECURSIVE Replace(_, _, _)
Replace(s, old, new) ==
    IF s = <<>> THEN <<>>
    ELSE IF StartsWith(s, old)
         THEN new \o Replace(SubSeq(s, Len(old) + 1, Len(s)), old, new)
    ELSE <<Head(s)>> \o Replace(Tail(s), old, new)

\* the pairs of format_with_message_ml, in the order of the list
MessageMLPairs ==
    << [original |-> <<"&">>,      msg_ml_version |-> <<"&", "#", "3", "8", ";">>],
       [original |-> <<"<">>,      msg_ml_version |-> <<"&", "l", "t", ";">>],
       [original |-> <<">">>,      msg_ml_version |-> <<"&", "g", "t", ";">>],
       [original |-> <<"$", "{">>, msg_ml_version |-> <<"&", "#", "3", "6", ";", "{">>],
       [original |-> <<"#", "{">>, msg_ml_version |-> <<"&", "#", "3", "5", ";", "{">>] >>

\* the loop of format_with_message_ml from pair k on
RECURSIVE FormatFrom(_, _, _)
FormatFrom(text, k, to_message_ml) ==
    IF k > Len(MessageMLPairs) THEN text
    ELSE FormatFrom(IF to_message_ml
                    THEN Replace(text, MessageMLPairs[k].original,
                                 MessageMLPairs[k].msg_ml_version)
                    ELSE Replace(text, MessageMLPairs[k].msg_ml_version,
                                 MessageMLPairs[k].original),
                    k + 1, to_message_ml)

format_with_message_ml(text, to_message_ml) == FormatFrom(text, 1, to_message_ml)

\* f"Cannot find stream ID for: {msg.room}", shortened to its first word
CannotFind(room) == <<"C", "a", "n", "n", "o", "t", ":", " ">> \o room
\* "<messageML>ERROR: Could not send message on Symphony</messageML>",
\* shortened to its first word
InformNotice == OpenTag \o <<"E", "R", "R", "O", "R">> \o CloseTag

----------------------------------------------------------------------------
(* send_symphony_message_async, one step per await: the frame snd holds    *)
(* where the call is, its msg and its stream_id; outbox holds the calls of *)
(* message_service.send_message the call has made.                         *)

SenderThread == "t2"

\* calls of send_symphony_message_async in one run
MaxSends == 2

\* msg.msg of the outbound messages: plain text, text in its envelope, the
\* same with white space around it, and the empty text
Wrapped == OpenTag \o Hello \o CloseTag
Padded  == <<" ">> \o Wrapped \o <<"\n">>
Bodies  == {Hello, Wrapped, Padded, <<>>}

\* an outbound SymphonyMessage: the fields the sender reads
Out(user, user_id, room, msg, stream_id) ==
    SymphonyMessage(user, <<>>, user_id, <<>>, room, msg, <<>>, stream_id)

\* addressed by stream id; by room name; by IM and display name (a short
\* one and one of 21 characters), user id, both, neither, and the fields of
\* a message of an unknown author
OutMessages ==
    { Out(<<>>, <<>>, <<>>, body, S1) : body \in Bodies }
    \cup { Out(<<>>, <<>>, Foo, Hello, <<>>),
           Out(Alice, <<>>, IM, Hello, <<>>),
           Out(Long21, <<>>, IM, Hello, <<>>),
           Out(<<>>, U42, IM, Hello, <<>>),
           Out(Alice, U42, IM, Hello, <<>>),
           Out(<<>>, <<>>, IM, Hello, <<>>),
           Out(USER_ERROR, USER_ERROR, IM, Hello, <<>>) }

\* int(s) returns for a string of decimal digits and raises ValueError else
Digits == {"0", "1", "2", "3", "4", "5", "6", "7", "8", "9"}
IntParses(s) == s # <<>> /\ \A k \in 1..Len(s) : s[k] \in Digits

\* the frame of a call that has just begun, and of one that has returned
Begun(at, msg, stream_id) ==
    [at |-> at, msg |-> msg, stream_id |-> stream_id,
     error_stream_id |-> None, ret |-> FALSE, raised |-> FALSE,
     known_im |-> IF message_queue # <<>>
                  THEN message_queue[Len(message_queue)].stream_id
                  ELSE None]
Returned(ret) == [snd EXCEPT !.at = "returned", !.ret = ret]

\* one call of message_service.send_message and whether it returned
Sent(stream_id, content, kind, ok) ==
    [stream_id |-> stream_id, content |-> content, kind |-> kind, ok |-> ok]

\* lines 542-544: the body handed to send_message for the target stream
wrap_always(content) == OpenTag \o content \o CloseTag
wrap_content(content) ==
    IF ~StartsWith(Strip(content), OpenTag)
    THEN OpenTag \o content \o CloseTag
    ELSE content

\* lines 530-538: the body of the message to the error room
error_content(msg) ==
    OpenTag \o format_with_message_ml(CannotFind(msg.room), TRUE) \o CloseTag

\* the except clause of line 549: an Exception raised from the try block
\* enters the handler, anything else leaves the call
outer_except_missing(frame, e) ==
    [frame EXCEPT !.at = "returned", !.raised = TRUE]
outer_except(frame, e) ==
    IF e \in Excs THEN [frame EXCEPT !.at = "except"]
    ELSE [frame EXCEPT !.at = "returned", !.raised = TRUE]

\* lines 503-524 for a target that needs no room lookup: msg.stream_id, or
\* room "IM" (create_im when there is a user_id, else the cached stream of
\* the display name); int(msg.user_id) raising is caught at line 520
send_call_direct(msg) ==
    /\ Truthy(msg.stream_id) \/ msg.room = IM
    /\ snd' = IF Truthy(msg.stream_id)
              THEN Begun("resolved", msg, msg.stream_id)
              ELSE IF Truthy(msg.user_id)
                   THEN (IF IntParses(msg.user_id)
                         THEN Begun("create_im", msg, None)
                         ELSE Begun("resolved", msg, None))
              ELSE IF Truthy(msg.user)
                   THEN Begun("resolved", msg, get_room_id(name_to_id, msg.user))
              ELSE Begun("resolved", msg, None)
    /\ lastOp' = Op("send_call", SenderThread, msg.room, None, None, msg, "-",
                    FALSE, FALSE)
    /\ UNCHANGED <<dirVars, pc>>

\* line 527: the target is a room name
send_call_lookup(msg) ==
    /\ ~Truthy(msg.stream_id) /\ msg.room # IM
    /\ get_room_id_async_call(SenderThread, msg.room)
    /\ snd' = Begun("lookup", msg, None)

send_call(msg) ==
    /\ snd.at = "idle"
    /\ pc[SenderThread].at = "idle"
    /\ send_call_direct(msg) \/ send_call_lookup(msg)
    /\ outbox' = <<>>
    /\ sends' = sends + 1

SendCall(msg) ==
    /\ sends < MaxSends
    /\ send_call(msg)
    /\ UNCHANGED <<feedVars, config, writeVars>>

\* create_im returned a stream: lines 517-519
CreateImReturn(id) ==
    /\ snd.at = "create_im"
    /\ SetDir(set_im_id(Dir, snd.msg.user_id, id))
    /\ snd' = [snd EXCEPT !.at = "resolved", !.stream_id = id]
    /\ lastOp' = Op("create_im_return", SenderThread, snd.msg.user_id, id,
                    None, None, "-", FALSE, FALSE)
    /\ UNCHANGED <<stream_service, pc, outbox, sends>>
    /\ UNCHANGED <<feedVars, config, writeVars>>

\* create_im raised: lines 520-521, logged, stream_id stays None
CreateImRaise(e) ==
    /\ snd.at = "create_im"
    /\ snd' = [snd EXCEPT !.at = "resolved"]
    /\ lastOp' = Op("create_im_raise", SenderThread, snd.msg.user_id, None,
                    None, None, e, FALSE, FALSE)
    /\ UNCHANGED <<dirVars, pc, outbox, sends>>
    /\ UNCHANGED <<feedVars, config, writeVars>>

\* get_room_id_async(msg.room) returned
SendLookupDone ==
    /\ snd.at = "lookup"
    /\ pc[SenderThread].at = "done"
    /\ snd' = [snd EXCEPT !.at = "resolved", !.stream_id = pc[SenderThread].ret]
    /\ pc' = [pc EXCEPT ![SenderThread] = Idle]
    /\ lastOp' = Op("send_lookup_done", SenderThread, pc[SenderThread].key,
                    None, pc[SenderThread].ret, None, "-", FALSE, FALSE)
    /\ UNCHANGED <<dirVars, outbox, sends>>
    /\ UNCHANGED <<feedVars, config, writeVars>>

\* lines 529-546 up to the next await: with a stream the message is sent;
\* with none and no error_room the call returns False; with none and an
\* error_room the room is looked up
SendResolved ==
    /\ snd.at = "resolved"
    /\ \/ /\ Truthy(snd.stream_id)
          /\ snd' = [snd EXCEPT !.at = "send"]
          /\ lastOp' = Op("send_resolved", SenderThread, snd.msg.room, None,
                          snd.stream_id, None, "-", FALSE, TRUE)
          /\ UNCHANGED <<dirVars, pc>>
       \/ /\ ~Truthy(snd.stream_id)
          /\ ~Truthy(config.error_room)
          /\ snd' = Returned(FALSE)
          /\ lastOp' = Op("send_resolved", SenderThread, snd.msg.room, None,
                          snd.stream_id, None, "-", FALSE, FALSE)
          /\ UNCHANGED <<dirVars, pc>>
       \/ /\ ~Truthy(snd.stream_id)
          /\ Truthy(config.error_room)
          /\ get_room_id_async_call(SenderThread, config.error_room)
          /\ snd' = [snd EXCEPT !.at = "error_lookup"]
    /\ UNCHANGED <<outbox, sends>>
    /\ UNCHANGED <<feedVars, config, writeVars>>

\* get_room_id_async(config.error_room) returned: lines 533-539
ErrorLookupDone ==
    /\ snd.at = "error_lookup"
    /\ pc[SenderThread].at = "done"
    /\ snd' = IF Truthy(pc[SenderThread].ret)
              THEN [snd EXCEPT !.at = "error_send",
                               !.error_stream_id = pc[SenderThread].ret]
              ELSE Returned(FALSE)
    /\ pc' = [pc EXCEPT ![SenderThread] = Idle]
    /\ lastOp' = Op("error_lookup_done", SenderThread, pc[SenderThread].key,
                    None, pc[SenderThread].ret, None, "-", FALSE, FALSE)
    /\ UNCHANGED <<dirVars, outbox, sends>>
    /\ UNCHANGED <<feedVars, config, writeVars>>

\* send_message of the frame's three sends: what is sent and to which stream
SendKinds == {"send", "error_send", "inform_send"}
SendOf(frame) ==
    IF frame.at = "send"
    THEN Sent(frame.stream_id, wrap_content(frame.msg.msg), "target", TRUE)
    ELSE IF frame.at = "error_send"
    THEN Sent(frame.error_stream_id, error_content(frame.msg), "error", TRUE)
    ELSE Sent(frame.stream_id, InformNotice, "inform", TRUE)

\* message_service.send_message returned: the send to the target returns
\* True (line 547), the send to the error room False (line 539), the notice
\* of the except clause False (line 561)
SendMessageReturn ==
    /\ snd.at \in SendKinds
    /\ outbox' = Append(outbox, SendOf(snd))
    /\ snd' = Returned(snd.at = "send")
    /\ lastOp' = Op("send_message_return", SenderThread, SendOf(snd).stream_id,
                    None, None, None, "-", FALSE, snd.at = "send")
    /\ UNCHANGED <<dirVars, pc, sends>>
    /\ UNCHANGED <<feedVars, config, writeVars>>

\* message_service.send_message raised: from the try block into the except
\* clause of line 549, from the except clause into its own `except
\* Exception: pass` (lines 559-560)
SendMessageRaise(e) ==
    /\ snd.at \in SendKinds
    /\ outbox' = Append(outbox, [SendOf(snd) EXCEPT !.ok = FALSE])
    /\ snd' = IF snd.at = "inform_send" THEN Returned(FALSE)
              ELSE outer_except(snd, e)
    /\ lastOp' = Op("send_message_raise", SenderThread, SendOf(snd).stream_id,
                    None, None, None, e, FALSE, FALSE)
    /\ UNCHANGED <<dirVars, pc, sends>>
    /\ UNCHANGED <<feedVars, config, writeVars>>

\* the except clause, lines 549-561, up to its await
SendExcept ==
    /\ snd.at = "except"
    /\ \/ /\ config.inform_client /\ snd.msg.room # IM
          /\ get_room_id_async_call(SenderThread, snd.msg.room)
          /\ snd' = [snd EXCEPT !.at = "inform_lookup"]
       \/ /\ ~(config.inform_client /\ snd.msg.room # IM)
          /\ snd' = Returned(FALSE)
          /\ lastOp' = Op("send_except", SenderThread, snd.msg.room, None,
                          None, None, "-", FALSE, FALSE)
          /\ UNCHANGED <<dirVars, pc>>
    /\ UNCHANGED <<outbox, sends>>
    /\ UNCHANGED <<feedVars, config, writeVars>>

\* get_room_id_async(msg.room) of the except clause returned: lines 553-554
InformLookupDone ==
    /\ snd.at = "inform_lookup"
    /\ pc[SenderThread].at = "done"
    /\ snd' = IF Truthy(pc[SenderThread].ret)
              THEN [snd EXCEPT !.at = "inform_send",
                               !.stream_id = pc[SenderThread].ret]
              ELSE [Returned(FALSE) EXCEPT !.stream_id = pc[SenderThread].ret]
    /\ pc' = [pc EXCEPT ![SenderThread] = Idle]
    /\ lastOp' = Op("inform_lookup_done", SenderThread, pc[SenderThread].key,
                    None, pc[SenderThread].ret, None, "-", FALSE, FALSE)
    /\ UNCHANGED <<dirVars, outbox, sends>>
    /\ UNCHANGED <<feedVars, config, writeVars>>

\* the caller takes the result of the call
send_return ==
    /\ snd.at = "returned"
    /\ snd' = SendIdle
    /\ lastOp' = Op("send_symphony_message_async", SenderThread,
                    snd.msg.room, None, None, snd.msg, "-", snd.raised,
                    snd.ret)
    /\ UNCHANGED <<dirVars, pc, outbox, sends>>

SendReturn ==
    /\ send_return
    /\ UNCHANGED <<feedVars, config, writeVars>>

\* the sender under an open session, next to a reader that listens to all
\* rooms: IM events arrive while messages are sent
SendDirs ==
    { [n2i |-> <<>>, i2n |-> <<>>],
      register_room(register_room([n2i |-> <<>>, i2n |-> <<>>], Foo, S1),
                    FooX, S2) }
SendConfigs ==
    { Config(TRUE, error_room, inform_client) :
        error_room \in {None, FooX}, inform_client \in BOOLEAN }
\* what search_rooms returns to the sender: no room, or one room
SendSearchResults == {<<>>} \cup { <<room>> : room \in FoundRooms }
\* the events of the reader: messages of Alice on an IM stream
ImEvents ==
    { ev \in MessageEvents :
        /\ ev.has_stream /\ ev.stream_type = "IM"
        /\ ev.has_user /\ ev.data = EmptyText }

SendInit ==
    /\ \E d \in SendDirs : name_to_id = d.n2i /\ id_to_name = d.i2n
    /\ stream_service = StreamService
    /\ pc = [t \in Threads |-> Idle]
    /\ lastOp = NoOp
    /\ rooms = {} /\ todo = {} /\ room_ids = {}
    /\ rpc = "listening" /\ message_queue = <<>> /\ pushed = <<>> /\ events = 0
    /\ enqueued = <<>>
    /\ LifeStarted
    /\ PresIdle
    /\ SslIdle
    /\ config \in SendConfigs
    /\ WriterIdle

SendNext ==
    \/ \E ev \in ImEvents : OnMessageSent(ev)
    \/ \E msg \in OutMessages : SendCall(msg)
    \/ \E id \in StreamIds : CreateImReturn(id)
    \/ \E e \in Excs : CreateImRaise(e)
    \/ \E rs \in SendSearchResults : SearchRoomsReturn(SenderThread, rs)
    \/ \E e \in Excs : SearchRoomsRaise(SenderThread, e)
    \/ SendLookupDone
    \/ SendResolved
    \/ ErrorLookupDone
    \/ SendMessageReturn
    \/ \E e \in Excs : SendMessageRaise(e)
    \/ SendExcept
    \/ InformLookupDone
    \/ SendReturn

SpecSend == SendInit /\ [][SendNext]_vars

----------------------------------------------------------------------------
(* The writer: the _symphony_write node puts each ticked message on        *)
(* s_queue; the thread of _send_messages_thread opens a session, takes the *)
(* items one at a time and sends each; stop puts the sentinel None, joins  *)
(* the queue and then the thread.                                          *)

\* messages ticked into the node in one run
MaxTicks == 2

\* an item of s_queue: a message, or the sentinel None
QMsg(msg) == [stop |-> FALSE, msg |-> msg]
QStop     == [stop |-> TRUE,  msg |-> Out(<<>>, <<>>, <<>>, <<>>, <<>>)]

\* the messages ticked: by stream id, by room name, by IM and user id
\* and by IM with nobody named, which no send can resolve
WriteMessages ==
    { Out(<<>>, <<>>, <<>>, Hello, S1),
      Out(<<>>, <<>>, Foo, Hello, <<>>),
      Out(<<>>, U42, IM, Hello, <<>>),
      Out(<<>>, <<>>, IM, Hello, <<>>) }

\* Queue.get taking the newest item
queue_get_last(q) == [item |-> q[Len(q)], rest |-> SubSeq(q, 1, Len(q) - 1)]
\* Queue.get: the oldest item
queue_get(q) == [item |-> Head(q), rest |-> Tail(q)]

\* csp.start: the queue is made and the thread started
NodeStart ==
    /\ wnode = "new"
    /\ wnode' = "running"
    /\ s_queue' = <<>>
    /\ unfinished' = 0
    /\ worker' = "starting"
    /\ lastOp' = Op("csp_start", "node", None, None, None, None, "-", FALSE,
                    FALSE)
    /\ UNCHANGED <<dirVars, pc, feedVars, sendVars, accepted, attempted>>

\* csp.ticked(msg): s_queue.put(msg)
NodeTick(msg) ==
    /\ wnode = "running"
    /\ Len(accepted) < MaxTicks
    /\ s_queue' = Append(s_queue, QMsg(msg))
    /\ unfinished' = unfinished + 1
    /\ accepted' = Append(accepted, msg)
    /\ lastOp' = Op("csp_ticked", "node", msg.room, None, None, msg, "-",
                    FALSE, FALSE)
    /\ UNCHANGED <<dirVars, pc, feedVars, sendVars, wnode, worker, attempted>>

\* csp.stop up to s_queue.join(): s_thread is set, the sentinel is put
NodeStop ==
    /\ wnode = "running"
    /\ s_queue' = Append(s_queue, QStop)
    /\ unfinished' = unfinished + 1
    /\ wnode' = "join_queue"
    /\ lastOp' = Op("csp_stop", "node", None, None, None, None, "-", FALSE,
                    FALSE)
    /\ UNCHANGED <<dirVars, pc, feedVars, sendVars, worker, accepted, attempted>>

\* s_queue.join() returns: every item put has been marked done
NodeJoinQueue ==
    /\ wnode = "join_queue"
    /\ unfinished = 0
    /\ wnode' = "join_thread"
    /\ lastOp' = Op("queue_join", "node", None, None, None, None, "-", FALSE,
                    FALSE)
    /\ UNCHANGED <<dirVars, pc, feedVars, sendVars, s_queue, unfinished, worker,
                   accepted, attempted>>

\* s_thread.join(timeout=5.0) returns: the thread has ended, or 5 seconds
\* have passed
NodeJoinThread ==
    /\ wnode = "join_thread"
    /\ wnode' = "stopped"
    /\ lastOp' = Op("thread_join", "node", None, None, None, None, "-", FALSE,
                    worker \in {"stopped", "failed"})
    /\ UNCHANGED <<dirVars, pc, feedVars, sendVars, s_queue, unfinished, worker,
                   accepted, attempted>>

\* run() with no bdk_config: logged, the thread ends (lines 574-577)
WorkerNoConfig ==
    /\ worker = "starting"
    /\ ~config.has_bdk_config
    /\ worker' = "failed"
    /\ lastOp' = Op("worker_no_config", SenderThread, None, None, None, None,
                    "-", FALSE, FALSE)
    /\ UNCHANGED <<dirVars, pc, feedVars, sendVars, s_queue, unfinished, wnode,
                   accepted, attempted>>

\* the session opens and the mapper gets its stream service (lines 579-580)
WorkerOpen ==
    /\ worker = "starting"
    /\ config.has_bdk_config
    /\ stream_service' = ServiceOf("sender")
    /\ worker' = "waiting"
    /\ lastOp' = Op("set_stream_service", SenderThread, None, None, None,
                    None, "-", FALSE, FALSE)
    /\ UNCHANGED <<name_to_id, id_to_name, pc, feedVars, sendVars, s_queue,
                   unfinished, wnode, accepted, attempted>>

\* SymphonyBdk(bdk_config) or its __aenter__ raises: the exception leaves
\* run() and run_until_complete, the thread ends (lines 579, 595-598)
WorkerOpenRaise(e) ==
    /\ worker = "starting"
    /\ config.has_bdk_config
    /\ worker' = "failed"
    /\ lastOp' = Op("worker_open_raise", SenderThread, None, None, None, None,
                    e, TRUE, FALSE)
    /\ UNCHANGED <<dirVars, pc, feedVars, sendVars, s_queue, unfinished, wnode,
                   accepted, attempted>>

\* one turn of the loop up to its await: msg_queue.get() and task_done(),
\* then the break on the sentinel or the call of
\* send_symphony_message_async (lines 584-591)
WorkerGet ==
    LET got == queue_get(s_queue) IN
    /\ worker = "waiting"
    /\ s_queue # <<>>
    /\ s_queue' = got.rest
    /\ unfinished' = unfinished - 1
    /\ \/ /\ got.item.stop
          /\ worker' = "stopped"
          /\ lastOp' = Op("worker_break", SenderThread, None, None, None,
                          None, "-", FALSE, FALSE)
          /\ UNCHANGED <<dirVars, pc, snd, outbox, sends, attempted>>
       \/ /\ ~got.item.stop
          /\ send_call(got.item.msg)
          /\ worker' = "sending"
          /\ attempted' = Append(attempted, got.item.msg)
    /\ UNCHANGED <<feedVars, config, wnode, accepted>>

\* a thread that ends when a send has failed
after_send_failed_ends(frame) ==
    IF frame.ret /\ ~frame.raised THEN "waiting" ELSE "failed"
\* lines 590-593: whatever the call returned, and if it raised an
\* Exception, the loop goes on to the next get
after_send(frame) == "waiting"

\* send_symphony_message_async has returned (or raised: lines 592-593), the
\* loop goes on
WorkerSendDone ==
    /\ worker = "sending"
    /\ send_return
    /\ worker' = after_send(snd)
    /\ UNCHANGED <<feedVars, config, s_queue, unfinished, wnode, accepted,
                   attempted>>

\* message_service.send_message never completes: the await of line 546
\* (535, 555) is not wrapped in a timeout, the frame stays in the call
SendMessageHang ==
    /\ snd.at \in SendKinds
    /\ outbox' = Append(outbox, [SendOf(snd) EXCEPT !.ok = FALSE])
    /\ snd' = [snd EXCEPT !.at = "hung"]
    /\ lastOp' = Op("send_message_hang", SenderThread, SendOf(snd).stream_id,
                    None, None, None, "-", FALSE, FALSE)
    /\ UNCHANGED <<dirVars, pc, sends>>
    /\ UNCHANGED <<feedVars, config, writeVars>>

\* the steps the thread of _send_messages_thread can take by itself or on
\* the completion of a collaborator call
SenderThreadNext ==
    \/ WorkerNoConfig
    \/ WorkerOpen
    \/ \E e \in Excs : WorkerOpenRaise(e)
    \/ WorkerGet
    \/ WorkerSendDone
    \/ \E id \in StreamIds : CreateImReturn(id)
    \/ \E e \in Excs : CreateImRaise(e)
    \/ \E rs \in SendSearchResults : SearchRoomsReturn(SenderThread, rs)
    \/ \E e \in Excs : SearchRoomsRaise(SenderThread, e)
    \/ SendLookupDone
    \/ SendResolved
    \/ ErrorLookupDone
    \/ SendMessageReturn
    \/ \E e \in Excs : SendMessageRaise(e)
    \/ SendExcept
    \/ InformLookupDone

WriteConfigs ==
    { Config(has_bdk_config, None, FALSE) : has_bdk_config \in BOOLEAN }
    \cup { Config(has_bdk_config, FooX, TRUE) : has_bdk_config \in BOOLEAN }

WriteInit ==
    /\ \E d \in SendDirs : name_to_id = d.n2i /\ id_to_name = d.i2n
    /\ stream_service = None
    /\ pc = [t \in Threads |-> Idle]
    /\ lastOp = NoOp
    /\ ReaderIdle
    /\ config \in WriteConfigs
    /\ WriterIdle

WriteNext ==
    \/ NodeStart
    \/ \E msg \in WriteMessages : NodeTick(msg)
    \/ NodeStop
    \/ NodeJoinQueue
    \/ NodeJoinThread
    \/ SenderThreadNext
    \/ SendMessageHang

SpecWrite == WriteInit /\ [][WriteNext]_vars

----------------------------------------------------------------------------
(* The life of the reader: start() and stop() on the thread of the graph,  *)
(* _run and _async_run on the reader's thread, and the task of             *)
(* _process_queue on the event loop of that thread.                        *)

\* calls of stop() in one run
MaxStops == 2

Bye == <<"B", "y", "e">>
\* exit_msg given to subscribe()
ExitMsgs == {<<>>, Bye}

\* what the session or the datafeed raises
AuthExc == "AuthUnauthorizedError"
SslExc  == "SSLError"
FatalExcs == {AuthExc, SslExc, "FileNotFoundError", "ApiException"}
\* run_until_complete when the loop was stopped before _async_run ended
LoopStoppedExc == "RuntimeError: Event loop stopped before Future completed."
\* call_soon_threadsafe on a closed loop
LoopClosedExc  == "RuntimeError: Event loop is closed"
\* _async_run without a bdk_config (line 402)
NoConfigExc    == "ValueError: BDK config not available"

\* the None that stop() and _run put on the queue: no message has user None
Sentinel == SymphonyMessage(None, None, None, <<>>, None, None, None, None)
IsSentinel(msg) == msg.user = None

\* the except clauses of _run (lines 321-391): what _error becomes
run_except(e) ==
    IF e = AuthExc THEN "RuntimeError: Symphony authentication failed"
    ELSE IF e = SslExc THEN "RuntimeError: Symphony SSL error"
    ELSE e

\* every except clause of _run: _error is set and _running cleared; the
\* thread is then about to call os._exit(1)
Fatal(e) ==
    /\ rerror' = run_except(e)
    /\ running' = FALSE
    /\ rpc' = "fatal"

\* the reader's thread is inside run_until_complete(_async_run())
InAsyncRun ==
    /\ rthread = "alive"
    /\ loop \in {"open", "stopping"}
    /\ rpc \in {"new", "resolving", "listening", "exit"}

\* the event loop is free to run a step of a coroutine: it is not inside
\* the synchronous part of _process_queue
LoopFree == InAsyncRun /\ drain # "loop"

\* the process runs: os._exit has not been called
ProcessAlive == rthread # "exited"

\* start() (lines 292-297)
HostStart ==
    /\ host = "new"
    /\ running' = TRUE
    /\ rthread' = "alive"
    /\ host' = "started"
    /\ lastOp' = Op("start", "host", None, None, None, None, "-", FALSE, FALSE)
    /\ UNCHANGED <<dirVars, pc, rooms, todo, room_ids, rpc, message_queue,
                   pushed, events, enqueued, rerror, loop, stops, drain,
                   batch, exit_msg, presVars, sslVars, outVars>>

\* stop(): the test of _running and its clearing (lines 301-302)
HostStopBegin ==
    /\ ProcessAlive
    /\ host \in {"started", "stopped", "stop_raised"}
    /\ stops < MaxStops
    /\ stops' = stops + 1
    /\ running' = FALSE
    /\ host' = IF running THEN "stop_put" ELSE "stop_end"
    /\ lastOp' = Op("stop_begin", "host", None, None, None, None, "-", FALSE,
                    running)
    /\ UNCHANGED <<dirVars, pc, rooms, todo, room_ids, rpc, message_queue,
                   pushed, events, enqueued, rerror, loop, rthread, drain,
                   batch, exit_msg, presVars, sslVars, outVars>>

\* stop(): self._message_queue.put(None) (line 304)
HostStopPut ==
    /\ ProcessAlive
    /\ host = "stop_put"
    /\ message_queue' = Append(message_queue, Sentinel)
    /\ host' = "stop_loop"
    /\ lastOp' = Op("stop_put", "host", None, None, None, None, "-", FALSE,
                    FALSE)
    /\ UNCHANGED <<dirVars, pc, rooms, todo, room_ids, rpc, pushed, events,
                   enqueued, running, rerror, loop, rthread, stops, drain,
                   batch, exit_msg, presVars, sslVars, outVars>>

\* stop(): the loop, if there is one, is asked to stop (lines 305-307); on
\* a loop that is closed call_soon_threadsafe raises and stop() with it
HostStopLoop ==
    /\ ProcessAlive
    /\ host = "stop_loop"
    /\ loop' = IF loop = "open" THEN "stopping" ELSE loop
    /\ host' = IF loop = "closed" THEN "stop_raised" ELSE "stop_join"
    /\ lastOp' = Op("stop_loop", "host", None, None, None, None,
                    IF loop = "closed" THEN LoopClosedExc ELSE "-",
                    loop = "closed", loop # "none")
    /\ UNCHANGED <<dirVars, pc, rooms, todo, room_ids, rpc, message_queue,
                   pushed, events, enqueued, running, rerror, rthread, stops,
                   drain, batch, exit_msg, presVars, sslVars, outVars>>

\* stop(): self._thread.join(timeout=5.0) returns, the thread ended or not
HostStopJoin ==
    /\ ProcessAlive
    /\ host = "stop_join"
    /\ host' = "stop_end"
    /\ lastOp' = Op("stop_join", "host", None, None, None, None, "-", FALSE,
                    rthread = "ended")
    /\ UNCHANGED <<dirVars, pc, rooms, todo, room_ids, rpc, message_queue,
                   pushed, events, enqueued, running, rerror, loop, rthread,
                   stops, drain, batch, exit_msg, presVars, sslVars, outVars>>

\* stop(): the recorded error, if any, is raised (lines 312-313)
HostStopEnd ==
    /\ ProcessAlive
    /\ host = "stop_end"
    /\ host' = IF rerror # "-" THEN "stop_raised" ELSE "stopped"
    /\ lastOp' = Op("stop", "host", None, None, None, None, rerror,
                    rerror # "-", FALSE)
    /\ UNCHANGED <<dirVars, pc, rooms, todo, room_ids, rpc, message_queue,
                   pushed, events, enqueued, running, rerror, loop, rthread,
                   stops, drain, batch, exit_msg, presVars, sslVars, outVars>>

\* _run: the loop is made (lines 317-318)
RunLoop ==
    /\ rthread = "alive"
    /\ loop = "none"
    /\ loop' = "open"
    /\ lastOp' = Op("new_event_loop", ReaderThread, None, None, None, None,
                    "-", FALSE, FALSE)
    /\ UNCHANGED <<dirVars, pc, rooms, todo, room_ids, rpc, message_queue,
                   pushed, events, enqueued, running, rerror, rthread, host,
                   stops, drain, batch, exit_msg, presVars, sslVars, outVars>>

\* _async_run raises before or while the session opens: no bdk_config (line
\* 402), or SymphonyBdk(bdk_config) and its __aenter__ raising (line 404)
RunOpenRaise(e) ==
    /\ InAsyncRun
    /\ rpc = "new"
    /\ IF config.has_bdk_config THEN e \in FatalExcs ELSE e = NoConfigExc
    /\ Fatal(e)
    /\ lastOp' = Op("run_raise", ReaderThread, None, None, None, None, e,
                    TRUE, FALSE)
    /\ UNCHANGED <<dirVars, pc, rooms, todo, room_ids, message_queue, pushed,
                   events, enqueued, loop, rthread, host, stops, drain, batch,
                   exit_msg, presVars, sslVars, outVars>>

\* the session opens: _async_run up to the loop over the rooms
LifeOpen ==
    /\ InAsyncRun
    /\ config.has_bdk_config
    /\ ReaderStart

LifeResolve(room) == InAsyncRun /\ ReaderResolve(room)
LifeSearchReturn(rs) == InAsyncRun /\ SearchRoomsReturn(ReaderThread, rs)
LifeCollect == InAsyncRun /\ ReaderCollect

\* the listener is subscribed, the task of _process_queue created and the
\* datafeed loop started (lines 417-434)
LifeListen ==
    /\ InAsyncRun
    /\ rpc = "resolving"
    /\ todo = {}
    /\ pc[ReaderThread].at = "idle"
    /\ rpc' = "listening"
    /\ drain' = "created"
    /\ lastOp' = Op("subscribe", ReaderThread, None, None, None, None, "-",
                    FALSE, FALSE)
    /\ UNCHANGED <<dirVars, pc, rooms, todo, room_ids, message_queue, pushed,
                   events, enqueued, running, rerror, loop, rthread, host,
                   stops, batch, exit_msg, presVars, sslVars, outVars>>

\* the listener's callbacks run on the loop
LifeMessageSent(ev) == LoopFree /\ OnMessageSent(ev)
LifeElementsAction(ev) == LoopFree /\ OnSymphonyElementsAction(ev)

\* the while test of _process_queue (line 454)
drain_test(is_running) == IF is_running THEN "sleep" ELSE "returned"

\* the task of _process_queue runs for the first time
DrainStart ==
    /\ InAsyncRun /\ rpc = "listening"
    /\ drain = "created"
    /\ drain' = drain_test(running)
    /\ lastOp' = Op("process_queue", ReaderThread, None, None, None, None,
                    "-", FALSE, running)
    /\ UNCHANGED <<dirVars, pc, rooms, todo, room_ids, rpc, message_queue,
                   pushed, events, enqueued, running, rerror, loop, rthread,
                   host, stops, batch, exit_msg, presVars, sslVars, outVars>>

\* the sleep is over, a drain cycle begins (lines 457-458)
DrainWake ==
    /\ InAsyncRun /\ rpc = "listening"
    /\ drain = "sleep"
    /\ drain' = "loop"
    /\ batch' = <<>>
    /\ lastOp' = Op("drain_wake", ReaderThread, None, None, None, None, "-",
                    FALSE, FALSE)
    /\ UNCHANGED <<dirVars, pc, rooms, todo, room_ids, rpc, message_queue,
                   pushed, events, enqueued, running, rerror, loop, rthread,
                   host, stops, exit_msg, presVars, sslVars, outVars>>

\* Queue.get_nowait taking the newest item
get_nowait_last(q) == [item |-> q[Len(q)], rest |-> SubSeq(q, 1, Len(q) - 1)]
\* Queue.get_nowait: the oldest item
get_nowait(q) == [item |-> Head(q), rest |-> Tail(q)]

\* one turn of the inner loop (lines 459-463): the oldest item is taken; on
\* None the task returns, else the item joins messages
DrainGet ==
    LET got == get_nowait(message_queue) IN
    /\ InAsyncRun /\ rpc = "listening"
    /\ drain = "loop"
    /\ message_queue # <<>>
    /\ message_queue' = got.rest
    /\ drain' = IF IsSentinel(got.item) THEN "returned" ELSE "loop"
    /\ batch' = IF IsSentinel(got.item) THEN batch ELSE Append(batch, got.item)
    /\ lastOp' = Op("drain_get", ReaderThread, None, None, None, got.item, "-",
                    FALSE, IsSentinel(got.item))
    /\ UNCHANGED <<dirVars, pc, rooms, todo, room_ids, rpc, pushed, events,
                   enqueued, running, rerror, loop, rthread, host, stops,
                   exit_msg, presVars, sslVars, outVars>>

\* push_tick for every list, the empty one too
deliver_always(ticks, messages) == Append(ticks, messages)
\* lines 464-466: push_tick(messages) if there are any
deliver(ticks, messages) ==
    IF messages # <<>> THEN Append(ticks, messages) ELSE ticks

\* the queue is empty: the end of the cycle (lines 464-466), then the
\* while test
DrainEnd ==
    /\ InAsyncRun /\ rpc = "listening"
    /\ drain = "loop"
    /\ message_queue = <<>>
    /\ pushed' = deliver(pushed, batch)
    /\ batch' = <<>>
    /\ drain' = drain_test(running)
    /\ lastOp' = Op("drain_end", ReaderThread, None, None, None, None, "-",
                    FALSE, batch # <<>>)
    /\ UNCHANGED <<dirVars, pc, rooms, todo, room_ids, rpc, message_queue,
                   events, enqueued, running, rerror, loop, rthread, host,
                   stops, exit_msg, presVars, sslVars, outVars>>

\* push_tick raises: logged (lines 469-470), then the while test
DrainEndRaise(e) ==
    /\ InAsyncRun /\ rpc = "listening"
    /\ drain = "loop"
    /\ message_queue = <<>>
    /\ batch # <<>>
    /\ batch' = <<>>
    /\ drain' = drain_test(running)
    /\ lastOp' = Op("drain_end_raise", ReaderThread, None, None, None, None,
                    e, FALSE, FALSE)
    /\ UNCHANGED <<dirVars, pc, rooms, todo, room_ids, rpc, message_queue,
                   pushed, events, enqueued, running, rerror, loop, rthread,
                   host, stops, exit_msg, presVars, sslVars, outVars>>

\* queue_task.cancel() (line 438) on a task that has not returned
drain_cancel(at) == IF at = "returned" THEN at ELSE "cancelled"

\* datafeed_loop.start() returns, or is cancelled (lines 434-438)
DatafeedEnd(how) ==
    /\ LoopFree /\ rpc = "listening"
    /\ rpc' = "exit"
    /\ drain' = drain_cancel(drain)
    /\ lastOp' = Op("datafeed_end", ReaderThread, None, None, None, None,
                    how, FALSE, FALSE)
    /\ UNCHANGED <<dirVars, pc, rooms, todo, room_ids, message_queue, pushed,
                   events, enqueued, running, rerror, loop, rthread, host,
                   stops, batch, exit_msg, presVars, sslVars, outVars>>

\* datafeed_loop.start() raises: the task is cancelled (finally, line 438)
\* and the exception leaves _async_run
DatafeedRaise(e) ==
    /\ LoopFree /\ rpc = "listening"
    /\ Fatal(e)
    /\ drain' = drain_cancel(drain)
    /\ lastOp' = Op("run_raise", ReaderThread, None, None, None, None, e,
                    TRUE, FALSE)
    /\ UNCHANGED <<dirVars, pc, rooms, todo, room_ids, message_queue, pushed,
                   events, enqueued, loop, rthread, host, stops, batch,
                   exit_msg, presVars, sslVars, outVars>>

\* line 446: the body of the exit message
exit_content(text) == OpenTag \o text \o CloseTag

\* lines 441-449 with an exit_msg and a room id: the message is sent to one
\* of the ids of _room_ids; send_message returns, or raises and is logged
ExitSend(room_id, ok) ==
    /\ LoopFree /\ rpc = "exit"
    /\ Truthy(exit_msg) /\ room_id \in room_ids
    /\ outbox' = Append(outbox, Sent(room_id, exit_content(exit_msg), "exit", ok))
    /\ rpc' = "done"
    /\ lastOp' = Op("exit_send", ReaderThread, room_id, None, None, None,
                    IF ok THEN "-" ELSE "ApiException", FALSE, ok)
    /\ UNCHANGED <<dirVars, pc, rooms, todo, room_ids, message_queue, pushed,
                   events, enqueued, lifeVars, presVars, sslVars, config, snd, sends,
                   writeVars>>

\* line 441: no exit_msg, or no room id
ExitSkip ==
    /\ LoopFree /\ rpc = "exit"
    /\ ~(Truthy(exit_msg) /\ room_ids # {})
    /\ rpc' = "done"
    /\ lastOp' = Op("exit_skip", ReaderThread, None, None, None, None, "-",
                    FALSE, FALSE)
    /\ UNCHANGED <<dirVars, pc, rooms, todo, room_ids, message_queue, pushed,
                   events, enqueued, lifeVars, presVars, sslVars, outVars>>

\* _async_run has returned: the finally of _run closes the loop and puts
\* None on the queue (lines 392-396), the thread ends
RunEnd ==
    /\ rthread = "alive" /\ rpc = "done"
    /\ loop' = "closed"
    /\ message_queue' = Append(message_queue, Sentinel)
    /\ rthread' = "ended"
    /\ rpc' = "ended"
    /\ lastOp' = Op("run_end", ReaderThread, None, None, None, None, "-",
                    FALSE, FALSE)
    /\ UNCHANGED <<dirVars, pc, rooms, todo, room_ids, pushed, events,
                   enqueued, running, rerror, host, stops, drain, batch,
                   exit_msg, presVars, sslVars, outVars>>

\* the loop takes the stop it was asked for: run_until_complete raises
\* RuntimeError as _async_run has not ended, the clause of line 356 takes it
LoopStopped ==
    /\ LoopFree
    /\ loop = "stopping"
    /\ Fatal(LoopStoppedExc)
    /\ lastOp' = Op("loop_stopped", ReaderThread, None, None, None, None,
                    LoopStoppedExc, TRUE, FALSE)
    /\ UNCHANGED <<dirVars, pc, rooms, todo, room_ids, message_queue, pushed,
                   events, enqueued, loop, rthread, host, stops, drain, batch,
                   exit_msg, presVars, sslVars, outVars>>

\* os._exit(1) at the end of every except clause of _run: the process is
\* gone, the finally clause does not run
RunExit ==
    /\ rthread = "alive" /\ rpc = "fatal"
    /\ rthread' = "exited"
    /\ lastOp' = Op("os_exit", ReaderThread, None, None, None, None, rerror,
                    TRUE, FALSE)
    /\ UNCHANGED <<dirVars, pc, rooms, todo, room_ids, rpc, message_queue,
                   pushed, events, enqueued, running, rerror, loop, host,
                   stops, drain, batch, exit_msg, presVars, sslVars, outVars>>

\* the events of the datafeed: messages of two authors in one room, and a
\* form
LifeMessages ==
    { Event("message_sent", TRUE, TRUE, S1, "ROOM", TRUE, EmptyText),
      Event("message_sent", TRUE, TRUE, S1, "ROOM", FALSE, EmptyText) }
LifeForms ==
    { Event("elements_action", TRUE, TRUE, S1, "ROOM", TRUE, EmptyText) }

\* subscribe(rooms, exit_msg): all rooms, or the room Foo
LifeRooms == {{}, {Foo}}
LifeConfigs == { Config(has_bdk_config, None, FALSE) :
                   has_bdk_config \in BOOLEAN }
\* what search_rooms returns to the reader: nothing, or the room
LifeSearchResults == {<<>>, <<[name |-> Foo, id |-> S1]>>}

LifeInit ==
    /\ \E d \in FeedDirs : name_to_id = d.n2i /\ id_to_name = d.i2n
    /\ stream_service = None
    /\ pc = [t \in Threads |-> Idle]
    /\ lastOp = NoOp
    /\ rooms \in LifeRooms
    /\ todo = {} /\ room_ids = {}
    /\ rpc = "new" /\ message_queue = <<>> /\ pushed = <<>> /\ events = 0
    /\ enqueued = <<>>
    /\ running = FALSE /\ rerror = "-" /\ loop = "none"
    /\ rthread = "none" /\ host = "new" /\ stops = 0
    /\ drain = "none" /\ batch = <<>>
    /\ exit_msg \in ExitMsgs
    /\ PresIdle
    /\ SslIdle
    /\ config \in LifeConfigs
    /\ WriterIdle

LifeNext ==
    \/ HostStart
    \/ HostStopBegin
    \/ HostStopPut
    \/ HostStopLoop
    \/ HostStopJoin
    \/ HostStopEnd
    \/ RunLoop
    \/ \E e \in FatalExcs \cup {NoConfigExc} : RunOpenRaise(e)
    \/ LifeOpen
    \/ \E room \in SubNames : LifeResolve(room)
    \/ \E rs \in LifeSearchResults : LifeSearchReturn(rs)
    \/ LifeCollect
    \/ LifeListen
    \/ \E ev \in LifeMessages : LifeMessageSent(ev)
    \/ \E ev \in LifeForms : LifeElementsAction(ev)
    \/ DrainStart
    \/ DrainWake
    \/ DrainGet
    \/ DrainEnd
    \/ DrainEndRaise("ValueError")
    \/ \E how \in {"returned", "CancelledError"} : DatafeedEnd(how)
    \/ \E e \in {AuthExc, "ApiException"} : DatafeedRaise(e)
    \/ \E room_id \in StreamIds, ok \in BOOLEAN : ExitSend(room_id, ok)
    \/ ExitSkip
    \/ RunEnd
    \/ LoopStopped
    \/ RunExit

SpecLife == LifeInit /\ [][LifeNext]_vars

----------------------------------------------------------------------------
(* _set_presence_sync, called by the _set_presence node on every tick: one *)
(* step per await of _async_set_presence, under asyncio.wait_for.          *)

\* presence updates ticked in one run
MaxPresences == 2

\* Presence values ticked
PresenceValues == {"AVAILABLE", "BUSY", "AWAY"}

\* what a presence call leaves alone
otherVars == <<dirVars, pc, rooms, todo, room_ids, rpc, message_queue, pushed,
               events, enqueued, lifeVars, sslVars, outVars>>

\* wait_for raising when the timeout has passed
TimeoutExc == "asyncio.TimeoutError"

\* the except clauses with only the one for asyncio.TimeoutError
presence_except_timeout_only(frame, e) ==
    IF e = TimeoutExc
    THEN [frame EXCEPT !.at = "returning", !.log = "timeout"]
    ELSE [frame EXCEPT !.at = "returning", !.raised = TRUE]
\* lines 662-665: a timeout is logged, any other Exception is logged too
presence_except(frame, e) ==
    IF e = TimeoutExc
    THEN [frame EXCEPT !.at = "returning", !.log = "timeout"]
    ELSE [frame EXCEPT !.at = "returning", !.log = "failed"]

\* the node ticks: the call up to its first await. Without a bdk_config the
\* coroutine logs and returns (lines 637-640)
PresenceCall(value) ==
    /\ prs.at = "idle"
    /\ Len(presence_log) < MaxPresences
    /\ prs' = IF config.has_bdk_config
              THEN [PresenceIdle EXCEPT !.at = "opening", !.value = value]
              ELSE [PresenceIdle EXCEPT !.at = "returning", !.value = value,
                                        !.log = "no_config"]
    /\ lastOp' = Op("set_presence_call", "node", None, None, None, None, "-",
                    FALSE, config.has_bdk_config)
    /\ UNCHANGED <<presence_log, otherVars>>

\* the session opens (line 642), set_presence is awaited (line 657)
PresenceOpen ==
    /\ prs.at = "opening"
    /\ prs' = [prs EXCEPT !.at = "setting"]
    /\ lastOp' = Op("presence_open", "node", None, None, None, None, "-",
                    FALSE, FALSE)
    /\ UNCHANGED <<presence_log, otherVars>>

\* SymphonyBdk(bdk_config), its __aenter__ or set_presence raises
PresenceRaise(e) ==
    /\ prs.at \in {"opening", "setting"}
    /\ prs' = presence_except(prs, e)
    /\ lastOp' = Op("presence_raise", "node", None, None, None, None, e,
                    FALSE, FALSE)
    /\ UNCHANGED <<presence_log, otherVars>>

\* the timeout passes before the coroutine is done (line 661)
PresenceTimeout ==
    /\ prs.at \in {"opening", "setting"}
    /\ prs' = presence_except(prs, TimeoutExc)
    /\ lastOp' = Op("presence_timeout", "node", None, None, None, None,
                    TimeoutExc, FALSE, FALSE)
    /\ UNCHANGED <<presence_log, otherVars>>

\* set_presence returned
PresenceSet ==
    /\ prs.at = "setting"
    /\ prs' = [prs EXCEPT !.at = "returning", !.log = "set"]
    /\ lastOp' = Op("presence_set", "node", None, None, None, None, "-",
                    FALSE, TRUE)
    /\ UNCHANGED <<presence_log, otherVars>>

\* finally: loop.close() (lines 666-667), the call is over
PresenceReturn ==
    /\ prs.at = "returning"
    /\ presence_log' = Append(presence_log, [value |-> prs.value,
                                             log |-> prs.log,
                                             raised |-> prs.raised])
    /\ prs' = PresenceIdle
    /\ lastOp' = Op("set_presence_sync", "node", None, None, None, None, "-",
                    prs.raised, prs.log = "set")
    /\ UNCHANGED otherVars

PresenceNext ==
    \/ \E value \in PresenceValues : PresenceCall(value)
    \/ PresenceOpen
    \/ \E e \in Excs : PresenceRaise(e)
    \/ PresenceTimeout
    \/ PresenceSet
    \/ PresenceReturn

PresenceInit ==
    /\ name_to_id = <<>> /\ id_to_name = <<>>
    /\ stream_service = None
    /\ pc = [t \in Threads |-> Idle]
    /\ lastOp = NoOp
    /\ ReaderIdle
    /\ config \in WriteConfigs
    /\ WriterIdle

SpecPresence == PresenceInit /\ [][PresenceNext]_vars

----------------------------------------------------------------------------
(* Properties of the mapper. *)

RegisterOps == {"register_room", "set_im_id"}

\* C1 as stated: the two maps are in sync, name_to_id[n] = i if and only if
\* id_to_name[i] = n, in every reachable state of the mapper.
C1_InSync ==
    /\ \A n \in DOMAIN name_to_id :
          /\ name_to_id[n] \in DOMAIN id_to_name
          /\ id_to_name[name_to_id[n]] = n
    /\ \A i \in DOMAIN id_to_name :
          /\ id_to_name[i] \in DOMAIN name_to_id
          /\ name_to_id[id_to_name[i]] = i

\* C1 (amended): every entry appears in both maps (each value of one map is
\* a key of the other), and the pair written last is in sync in both
\* directions; an older pair may have lost one direction to a later write.
C1_EntriesInBothMaps ==
    /\ \A n \in DOMAIN name_to_id : name_to_id[n] \in DOMAIN id_to_name
    /\ \A i \in DOMAIN id_to_name : id_to_name[i] \in DOMAIN name_to_id
    /\ lastOp.op \in RegisterOps => Registered(Dir, lastOp.key, lastOp.val)
    /\ (lastOp.op = "search_rooms_return" /\ lastOp.ret # None)
          => Registered(Dir, lastOp.key, lastOp.ret)
    /\ (lastOp.op = "get_room_info_return" /\ lastOp.ret # None)
          => Registered(Dir, lastOp.ret, lastOp.key)

\* C1 witness: a registration has left an older pair out of sync.
C1_Witness ==
    /\ lastOp.op \in RegisterOps
    /\ ~C1_InSync

\* C2: right after register_room(name, id) or set_im_id(name, id) returns,
\* get_room_id(name) is id and get_room_name(id) is name, whichever thread
\* looks (the maps are shared by all threads).
C2_LookupAfterRegister ==
    lastOp.op \in RegisterOps =>
        /\ get_room_id(name_to_id, lastOp.key) = lastOp.val
        /\ get_room_name(id_to_name, lastOp.val) = lastOp.key

\* C2 witness: a registration that replaced an older mapping of the name,
\* made while the other thread is inside an async resolution.
C2_Witness ==
    /\ lastOp.op \in RegisterOps
    /\ \E i \in DOMAIN id_to_name :
          i # lastOp.val /\ id_to_name[i] = lastOp.key
    /\ \E t \in Threads : t # lastOp.t /\ pc[t].at = "search_rooms"

BothDone(k) == \A t \in Threads : pc[t].at = "done" /\ pc[t].key = k

\* the directory holds one consistent mapping for name k
OneMapping(k) ==
    /\ k \in DOMAIN name_to_id
    /\ name_to_id[k] \in DOMAIN id_to_name
    /\ id_to_name[name_to_id[k]] = k
    /\ \A i \in DOMAIN id_to_name : id_to_name[i] = k => i = name_to_id[k]

\* C3 as stated: when two threads have called get_room_id_async concurrently
\* for the same uncached name and a resolution was cached, the directory
\* ends with one consistent mapping for the name: a single id in name_to_id
\* whose id_to_name entry is the name, and no other id_to_name entry
\* pointing at the name.
C3_OneMappingAfterRace ==
    \A k \in RaceNames :
        (BothDone(k) /\ k \in DOMAIN name_to_id) => OneMapping(k)

\* C3 (amended): both calls complete, and what they cached is never
\* partial: name_to_id[name] is an id one of the calls returned and
\* id_to_name of that id is the name; when the collaborator gave both calls
\* the same id, both return it and no other id_to_name entry points at the
\* name. (When it gave them different ids, both ids point at the name.)
C3_SameAnswerOneMapping ==
    \A k \in RaceNames :
        BothDone(k) =>
            /\ k \in DOMAIN name_to_id =>
                  /\ name_to_id[k] \in { pc[t].ret : t \in Threads }
                  /\ Registered(Dir, k, name_to_id[k])
            /\ (\A t \in Threads : pc[t].ret # None /\ pc[t].ret = pc["t1"].ret)
                  => /\ OneMapping(k)
                     /\ name_to_id[k] = pc["t1"].ret
            /\ (\E t \in Threads : pc[t].ret # None) => k \in DOMAIN name_to_id

\* C3 witness: both calls missed the cache, both went to the collaborator
\* and got the same id; the second has just written it back.
C3_Witness ==
    \E k \in RaceNames :
        /\ BothDone(k)
        /\ pc["t1"].ret # None /\ pc["t1"].ret = pc["t2"].ret
        /\ lastOp.op = "search_rooms_return"

\* C4: a step of the synchronous get_room_id changes neither map and starts
\* no call of the stream service (no thread moves into search_rooms or
\* get_room_info), whatever the name and the directory.
C4_GetRoomIdPure ==
    [][lastOp'.op = "get_room_id"
          => UNCHANGED <<name_to_id, id_to_name, stream_service, pc>>]_vars

\* C4 witness: an id-shaped name missed the cache and was returned as is,
\* with a stream service installed.
C4_Witness ==
    /\ lastOp.op = "get_room_id"
    /\ ~lastOp.flag
    /\ lastOp.ret = lastOp.key
    /\ stream_service # None

NoChar(s, cs) == \A k \in 1..Len(s) : s[k] \notin cs

\* C5 as stated: for a name not in the cache, get_room_id returns the name
\* itself when it is longer than 20 characters and contains no whitespace
\* character, and None otherwise; nothing is cached.
C5_ShapeFallbackWhitespace ==
    (lastOp.op = "get_room_id" /\ ~lastOp.flag) =>
        /\ lastOp.ret = IF Len(lastOp.key) > 20 /\ NoChar(lastOp.key, Whitespace)
                        THEN lastOp.key ELSE None
        /\ lastOp.key \notin DOMAIN name_to_id

\* C6: get_room_id_async accepts a search result only on exact equality of
\* names: when no returned room has exactly the requested name, the call
\* returns None and the step adds nothing to either map.
C6_ExactMatchOnly ==
    [][(lastOp'.op = "search_rooms_return"
          /\ \A k \in 1..Len(lastOp'.res) : lastOp'.res[k].name # lastOp'.key)
        => /\ lastOp'.ret = None
           /\ pc'[lastOp'.t] = Done(lastOp'.key, None)
           /\ UNCHANGED <<name_to_id, id_to_name>>]_vars

\* C6 witness: the collaborator returned a room whose name extends the
\* requested name, and the call returned None.
C6_Witness ==
    /\ lastOp.op = "search_rooms_return"
    /\ lastOp.ret = None
    /\ \E k \in 1..Len(lastOp.res) :
          /\ lastOp.res[k].name # None /\ lastOp.res[k].id # None
          /\ lastOp.res[k].name # lastOp.key
          /\ StartsWith(lastOp.res[k].name, lastOp.key)

RaiseOps == {"search_rooms_raise", "get_room_info_raise"}

\* C7: when the stream service raises inside get_room_id_async or
\* get_room_name_async, the call returns None, raises nothing to its caller
\* and changes neither map.
C7_RaiseIsMiss ==
    [][lastOp'.op \in RaiseOps
        => /\ lastOp'.ret = None
           /\ ~lastOp'.raised
           /\ pc'[lastOp'.t] = Done(lastOp'.key, None)
           /\ UNCHANGED <<name_to_id, id_to_name>>]_vars

\* C7 witness: get_room_info raised while the directory was not empty.
C7_Witness ==
    /\ lastOp.op = "get_room_info_raise"
    /\ lastOp.ret = None
    /\ DOMAIN name_to_id # {}

\* C8: registering a pair that is already registered (register_room or
\* set_im_id, so in particular registering the same pair a second time)
\* leaves both maps as they are.
C8_RegisterIdempotent ==
    [][(lastOp'.op \in RegisterOps
          /\ (lastOp'.flag
              \/ (lastOp.op \in RegisterOps /\ lastOp.key = lastOp'.key
                    /\ lastOp.val = lastOp'.val)))
        => UNCHANGED <<name_to_id, id_to_name>>]_vars

\* C8 witness: the same pair registered twice in a row, in a directory that
\* also holds another mapping.
C8_Witness ==
    /\ lastOp.op \in RegisterOps
    /\ lastOp.flag
    /\ Cardinality(DOMAIN name_to_id) > 1

----------------------------------------------------------------------------
(* Properties of the reader. *)

ListenerOps == {"on_message_sent", "on_symphony_elements_action"}

\* C9: for message-sent and form-submitted events alike, an event whose
\* stream is not in a non-empty allow-set produces no message and the
\* listener queues nothing; with an empty allow-set the filter drops
\* nothing: every event that has its message and stream, and that the
\* handler does not leave by an exception, produces a message, which the
\* listener queues.
C9_AllowSetFilter ==
    [][lastOp'.op \in ListenerOps =>
        LET ev == lastOp'.res IN
        /\ (room_ids # {} /\ ev.has_stream /\ ev.stream_id \notin room_ids)
              => /\ ~lastOp'.flag
                 /\ message_queue' = message_queue
        /\ (room_ids = {} /\ ev.has_message /\ ev.has_stream
                /\ ~lastOp'.raised)
              => /\ lastOp'.flag
                 /\ lastOp'.ret.stream_id = ev.stream_id
                 /\ message_queue' = Append(message_queue, lastOp'.ret)]_vars

\* C9 witness: a form submission on a stream outside the allow-set was
\* dropped, after an event of an allowed stream had been queued.
C9_Witness ==
    /\ lastOp.op = "on_symphony_elements_action"
    /\ room_ids # {}
    /\ lastOp.res.has_stream
    /\ lastOp.res.stream_id \notin room_ids
    /\ ~lastOp.flag
    /\ message_queue # <<>>

\* C10 as stated: when subscribe is called with a non-empty set of room
\* names, every message pushed to the graph comes from a stream whose id is
\* the resolution of one of those names.
C10_OnlySubscribedRooms ==
    rooms # {} =>
        \A b \in 1..Len(pushed) : \A k \in 1..Len(pushed[b]) :
            pushed[b][k].stream_id \in room_ids

----------------------------------------------------------------------------
(* Properties of _get_user_mentions. *)

\* a mention entry whose id field is not a list of objects
BadMention(value) ==
    /\ value.t = "obj"
    /\ JEq(DictGet(value, "type", JNull), JStr(MentionType))
    /\ HasKey(value, "id")
    /\ LET id == DictGet(value, "id", JNull) IN
       id.t # "arr" \/ \E k \in 1..Len(id.items) : id.items[k].v.t # "obj"

\* the malformed blobs: the empty string, text that is not JSON, JSON whose
\* top level is not an object, an object with a bad mention entry
Malformed(data) ==
    \/ data.text # "json"
    \/ data.value.t # "obj"
    \/ \E k \in 1..Len(data.value.items) : BadMention(data.value.items[k].v)

\* C14 as stated: for every malformed mention blob _get_user_mentions
\* returns an empty list and raises nothing.
C14_MalformedYieldsEmpty ==
    (lastOp.op = "get_user_mentions" /\ Malformed(lastOp.res)) =>
        /\ lastOp.ret = <<>>
        /\ ~lastOp.raised


\* the event has what its handler asks for and its stream is let through by
\* the allow-set
PassesFilter(ev) ==
    /\ ev.has_message /\ ev.has_stream
    /\ room_ids = {} \/ ev.stream_id \in room_ids

\* C11 as stated: a ROOM event that passes the filter and whose stream id
\* has no cached name produces a message whose room is the raw stream id:
\* the event is not dropped (the message is queued) and room is neither
\* empty nor None.
C11_RoomFallsBackToStreamId ==
    (/\ lastOp.op \in ListenerOps
     /\ PassesFilter(lastOp.res)
     /\ lastOp.res.stream_type = "ROOM"
     /\ ~Truthy(get_room_name(id_to_name, lastOp.res.stream_id)))
    => /\ lastOp.flag
       /\ lastOp.ret.room = lastOp.res.stream_id
       /\ Truthy(lastOp.ret.room)
       /\ message_queue # <<>>
       /\ message_queue[Len(message_queue)] = lastOp.ret

\* the same for the events whose handler returns (C11 without the events
\* that _get_user_mentions ends by an exception)
RoomFallsBackUnlessRaised ==
    lastOp.raised \/ C11_RoomFallsBackToStreamId


\* C12: after an IM event (message-sent or form-submitted) has been
\* translated, get_room_id of the author's display name and get_room_id of
\* the author's user id both return the stream of the event, and the
\* message produced has room "IM".
C12_ImAliasesRegistered ==
    (/\ lastOp.op \in ListenerOps
     /\ lastOp.flag
     /\ lastOp.res.stream_type = "IM")
    => /\ get_room_id(name_to_id, lastOp.ret.user) = lastOp.res.stream_id
       /\ get_room_id(name_to_id, lastOp.ret.user_id) = lastOp.res.stream_id
       /\ lastOp.res.has_user =>
             /\ lastOp.ret.user = lastOp.res.display_name
             /\ lastOp.ret.user_id = lastOp.res.user_id
       /\ lastOp.ret.room = IM

\* C12 witness: a form submitted by Alice (user id 42) on an IM stream was
\* translated after an IM message of hers on the other stream.
C12_Witness ==
    /\ lastOp.op = "on_symphony_elements_action"
    /\ lastOp.flag
    /\ lastOp.res.stream_type = "IM"
    /\ lastOp.res.has_user
    /\ Cardinality(DOMAIN id_to_name) > 1
    /\ get_room_id(name_to_id, Alice) = lastOp.res.stream_id
    /\ get_room_id(name_to_id, U42) = lastOp.res.stream_id


----------------------------------------------------------------------------
(* Properties of the sender. *)

\* the sends the finished call has handed to send_message for kind
Handed(kind) == { k \in 1..Len(outbox) : outbox[k].kind = kind }

\* the call that has just returned had an IM message with no stream_id to
\* send, and an IM event of Alice (user id 42) had been translated before
\* the call began
ImReplyDone ==
    /\ snd.at = "returned"
    /\ snd.msg.room = IM
    /\ ~Truthy(snd.msg.stream_id)
    /\ snd.known_im # None

\* C13 as stated: after an IM event of author (N, U) on stream S has been
\* translated, a later outbound message with room "IM" and no stream_id
\* that addresses the author by display name N alone, or by user id U, is
\* handed to the send collaborator with stream S.
C13_ImReplyUsesEventStream ==
    (/\ ImReplyDone
     /\ \/ snd.msg.user = Alice /\ ~Truthy(snd.msg.user_id)
        \/ snd.msg.user_id = U42)
    => \E k \in Handed("target") : outbox[k].stream_id = snd.known_im

\* the half of C13 that holds: the reply addressed by display name alone
ImReplyByNameUsesEventStream ==
    (/\ ImReplyDone
     /\ snd.msg.user = Alice /\ ~Truthy(snd.msg.user_id))
    => \E k \in Handed("target") : outbox[k].stream_id = snd.known_im


\* s.endswith(p), and the number of occurrences of p in s
EndsWith(s, p) ==
    Len(p) <= Len(s) /\ SubSeq(s, Len(s) - Len(p) + 1, Len(s)) = p
RECURSIVE Count(_, _)
Count(s, p) ==
    IF Len(s) < Len(p) THEN 0
    ELSE (IF StartsWith(s, p) THEN 1 ELSE 0) + Count(Tail(s), p)

\* the text, white space around it aside, is one <messageML> envelope
IsEnvelope(s) ==
    StartsWith(Strip(s), OpenTag) /\ EndsWith(Strip(s), CloseTag)

C16_NeverRaises ==
    snd.at = "returned" =>
        /\ ~snd.raised
        /\ snd.ret <=> \E k \in Handed("target") : outbox[k].ok
        /\ (\E k \in 1..Len(outbox) : ~outbox[k].ok) => ~snd.ret

\* C16 witness: the send to the target raised, and so did the notice of the
\* except clause; the call returned False.
C16_Witness ==
    /\ snd.at = "returned"
    /\ ~snd.ret
    /\ \E k \in Handed("target") : ~outbox[k].ok
    /\ \E k \in Handed("inform") : ~outbox[k].ok

\* C17 as stated: with an error_room that is configured and resolvable
\* (its name is cached), every outbound message that failed to be sent,
\* for want of a target stream or because send_message failed, has caused
\* a message to the error room.
C17_ErrorRoomOnEveryFailure ==
    (/\ snd.at = "returned"
     /\ ~snd.ret
     /\ Truthy(config.error_room)
     /\ config.error_room \in DOMAIN name_to_id)
    => \E k \in Handed("error") :
          outbox[k].stream_id = name_to_id[config.error_room]

\* the half of C17 that holds: a message with no target stream
ErrorRoomOnUnresolved ==
    (/\ snd.at = "returned"
     /\ Handed("target") = {}
     /\ Truthy(config.error_room)
     /\ config.error_room \in DOMAIN name_to_id)
    => \E k \in Handed("error") :
          outbox[k].stream_id = name_to_id[config.error_room]

\* C18 as stated: with inform_client set, every outbound message that
\* failed to be sent, for want of a target stream or because send_message
\* failed, to a room or to an IM, has caused a failure notice to the
\* intended recipient.
C18_InformOnEveryFailure ==
    (/\ snd.at = "returned"
     /\ ~snd.ret
     /\ config.inform_client)
    => \E k \in Handed("inform") : outbox[k].content = InformNotice


----------------------------------------------------------------------------
(* Properties of the writer. *)

IsPrefix(s, t) == Len(s) <= Len(t) /\ SubSeq(t, 1, Len(s)) = s

\* C19: the messages handed to send_symphony_message_async are, at every
\* moment, the first of the messages the node accepted, in the order
\* accepted and each once (one call per message); when the worker has taken
\* the stop sentinel every accepted message has been handed over and its
\* send has returned, and the queue is empty, so nothing is sent after the
\* sentinel.
C19_DrainInOrder ==
    /\ IsPrefix(attempted, accepted)
    /\ sends = Len(attempted)
    /\ worker = "stopped" =>
          /\ attempted = accepted
          /\ snd.at = "idle"
          /\ s_queue = <<>>

\* C19 witness: the worker took the sentinel after it had handed over two
\* different messages; the stop handler is past s_queue.join().
C19_Witness ==
    /\ worker = "stopped"
    /\ Len(attempted) >= 2
    /\ attempted[1] # attempted[2]
    /\ wnode = "join_thread"

\* C20 as stated: stopping the writer node always terminates, also when
\* the worker thread has ended without a session; that is, the stop handler
\* is never waiting in s_queue.join() for items that no thread is left to
\* mark done.
C20_StopTerminates ==
    ~(/\ wnode = "join_queue"
      /\ unfinished > 0
      /\ worker \in {"failed", "stopped"})


\* C21: a send that failed (send_symphony_message_async returned False,
\* also after a collaborator raised) leaves the worker in its loop, ready
\* for the next get with the queue as it was; and the thread never ends
\* with an accepted message that was not handed to a send.
C21_FailedSendKeepsWorker ==
    /\ [][(lastOp'.op = "send_symphony_message_async" /\ ~lastOp'.flag)
            => /\ worker' = "waiting"
               /\ snd'.at = "idle" /\ pc'[SenderThread].at = "idle"
               /\ s_queue' = s_queue]_vars
    /\ []((worker \in {"stopped", "failed"} /\ attempted # <<>>)
            => attempted = accepted /\ s_queue = <<>>)

\* C21 witness: the first message could not be resolved and its send
\* returned False; the second was handed to a send after it, and the worker
\* then took the sentinel.
C21_Witness ==
    /\ worker = "stopped"
    /\ Len(attempted) = 2
    /\ attempted[1] = Out(<<>>, <<>>, IM, Hello, <<>>)
    /\ attempted[2] = Out(<<>>, <<>>, <<>>, Hello, S1)


\* C22 as stated: every single outbound send is bounded by a timeout; when
\* a send_message call never completes, the worker can still take a step
\* (the call is abandoned and counted as failed) and so goes on to the
\* later messages and to the sentinel.
C22_SendBoundedByTimeout ==
    (worker = "sending" /\ snd.at = "hung") => ENABLED SenderThreadNext


\* the stream a display name is cached under, None when it is not cached
CachedStream(n2i, user) == IF user \in DOMAIN n2i THEN n2i[user] ELSE None

\* the first step of a call: from the message to the way its target is
\* found; im_stream is the stream an IM message without user_id is given
BeginsBy(im_stream) ==
    LET msg == snd'.msg IN
    /\ Truthy(msg.stream_id)
         => /\ snd'.at = "resolved" /\ snd'.stream_id = msg.stream_id
            /\ pc' = pc /\ name_to_id' = name_to_id
    /\ (~Truthy(msg.stream_id) /\ msg.room = IM /\ Truthy(msg.user_id))
         => /\ snd'.at = IF IntParses(msg.user_id) THEN "create_im"
                         ELSE "resolved"
            /\ snd'.stream_id = None
            /\ pc' = pc /\ name_to_id' = name_to_id
    /\ (~Truthy(msg.stream_id) /\ msg.room = IM /\ ~Truthy(msg.user_id))
         => /\ snd'.at = "resolved" /\ snd'.stream_id = im_stream
            /\ pc' = pc /\ name_to_id' = name_to_id
    /\ (~Truthy(msg.stream_id) /\ msg.room # IM)
         => /\ snd'.at = "lookup" /\ snd'.stream_id = None
            /\ pc'[SenderThread].at # "idle"
            /\ pc'[SenderThread].key = msg.room

\* what follows the first step: create_im returning registers the stream
\* under user_id, create_im raising leaves no stream; a call without a
\* stream makes no send to a target; every send to a target has a stream,
\* and a call that made none returns False
AfterBegin ==
    /\ [][lastOp'.op = "create_im_return"
            => /\ snd'.at = "resolved" /\ snd'.stream_id = lastOp'.val
               /\ CachedStream(name_to_id', snd.msg.user_id) = lastOp'.val]_vars
    /\ [][lastOp'.op = "create_im_raise"
            => snd'.at = "resolved" /\ snd'.stream_id = None]_vars
    /\ [][(snd.at = "resolved" /\ ~Truthy(snd.stream_id))
            => snd'.at \in {"resolved", "returned", "error_lookup"}]_vars
    /\ [](\A k \in Handed("target") : Truthy(outbox[k].stream_id))
    /\ []((snd.at = "returned" /\ Handed("target") = {}) => ~snd.ret)

\* C30 as stated: the target stream is picked by one precedence: msg.stream_id
\* as it is, with no lookup and no DM; else for room "IM" with a user_id
\* create_im for that user, the stream registered under user_id, and no
\* stream when the creation fails; else for room "IM" the cached stream of
\* the display name, with no DM; else get_room_id_async(msg.room). With no
\* stream nothing is sent to a target and the call returns False.
C30_TargetPrecedence ==
    /\ [][(snd.at = "idle" /\ snd'.at # "idle")
            => BeginsBy(CachedStream(name_to_id, snd'.msg.user))]_vars
    /\ AfterBegin

\* the same precedence with what the code gives an IM message without
\* user_id: the result of get_room_id(msg.user)
TargetPrecedenceByGetRoomId ==
    /\ [][(snd.at = "idle" /\ snd'.at # "idle")
            => BeginsBy(get_room_id(name_to_id, snd'.msg.user))]_vars
    /\ AfterBegin


----------------------------------------------------------------------------
(* Properties of the listener's event filter. *)

\* the initiator's user id, and the bot's id, can be determined
InitiatorKnown(event) == event.shape = "user" /\ event.user_id.known
BotKnown(bot_info)    == bot_info.shape = "info" /\ bot_info.id.known

\* C27 as stated: is_accepting_event returns False exactly when the
\* initiator's user id is known and equals the bot's id; so it returns True
\* whenever the initiator or the identity of the bot cannot be determined.
C27_AcceptsAllButOwnEvents ==
    lastOp.op = "is_accepting_event" =>
        (~lastOp.flag <=> /\ InitiatorKnown(lastOp.res)
                          /\ BotKnown(lastOp.val)
                          /\ lastOp.res.user_id = lastOp.val.id)

\* what holds of the code: False exactly when no AttributeError was raised
\* and the two ids, None included, are equal
AcceptsUnlessIdsEqual ==
    lastOp.op = "is_accepting_event" =>
        (~lastOp.flag <=>
            /\ lastOp.exc = "-"
            /\ (IF lastOp.res.shape = "user" THEN lastOp.res.user_id ELSE NoId)
               = (IF lastOp.val.shape = "info" THEN lastOp.val.id ELSE NoId))


----------------------------------------------------------------------------
(* Properties of _set_presence_sync. *)

\* C23: _set_presence_sync raises nothing to the node: a timeout, an
\* exception of the collaborator and a missing bdk_config each end in a
\* logged failure and a normal return; and every call, whatever the calls
\* before it came to, is attempted in the same way (it opens a session when
\* there is a bdk_config).
C23_PresenceNeverRaises ==
    /\ [](~prs.raised /\ \A k \in 1..Len(presence_log) : ~presence_log[k].raised)
    /\ [][lastOp'.op = "presence_timeout"
            => prs'.at = "returning" /\ prs'.log = "timeout"]_vars
    /\ [][lastOp'.op = "presence_raise"
            => prs'.at = "returning" /\ prs'.log = "failed"]_vars
    /\ [][lastOp'.op = "set_presence_call"
            => /\ config.has_bdk_config => prs'.at = "opening"
               /\ ~config.has_bdk_config
                    => prs'.at = "returning" /\ prs'.log = "no_config"]_vars
    /\ [][lastOp'.op = "set_presence_sync"
            => /\ prs'.at = "idle" /\ ~lastOp'.raised
               /\ Len(presence_log') = Len(presence_log) + 1]_vars

\* C23 witness: a call ran into its timeout and returned, a call after it
\* had its collaborator raise and returned too.
C23_Witness ==
    /\ Len(presence_log) = 2
    /\ presence_log[1].log = "timeout"
    /\ presence_log[2].log = "failed"
    /\ prs.at = "idle"


----------------------------------------------------------------------------
(* Properties of the reader's life. *)

\* C24: no batch handed to push_tick is empty, and push_tick is called at
\* most once in a drain cycle: the call adds one batch and is the last
\* step of its cycle.
C24_NoEmptyBatch ==
    /\ [](\A k \in 1..Len(pushed) : pushed[k] # <<>>)
    /\ [][pushed' # pushed
            => /\ drain = "loop" /\ drain' # "loop"
               /\ Len(pushed') = Len(pushed) + 1
               /\ SubSeq(pushed', 1, Len(pushed)) = pushed]_vars

\* C24 witness: a cycle has just found the queue empty and pushed nothing,
\* after an earlier cycle pushed a batch.
C24_Witness ==
    /\ lastOp.op = "drain_end" /\ ~lastOp.flag
    /\ Len(pushed) = 1

RECURSIVE Flatten(_)
Flatten(batches) ==
    IF batches = <<>> THEN <<>> ELSE Head(batches) \o Flatten(Tail(batches))

\* a is b with some elements left out
RECURSIVE IsSubseq(_, _)
IsSubseq(a, b) ==
    IF a = <<>> THEN TRUE
    ELSE IF b = <<>> THEN FALSE
    ELSE IF Head(a) = Head(b) THEN IsSubseq(Tail(a), Tail(b))
    ELSE IsSubseq(a, Tail(b))

\* C25: the batches pushed, one after the other, are the messages the
\* listener enqueued with some left out: the order of arrival is kept, of
\* two messages of one stream too, and no message is pushed twice.
C25_InboundOrderKept == IsSubseq(Flatten(pushed), enqueued)

\* C25 witness: one batch holds two different messages of stream s1, in the
\* order the listener enqueued them.
C25_Witness ==
    /\ Len(pushed) = 1
    /\ Len(pushed[1]) = 2
    /\ pushed[1][1] # pushed[1][2]
    /\ pushed[1][1].stream_id = S1 /\ pushed[1][2].stream_id = S1
    /\ pushed[1] = enqueued


\* stop() is between its first and its last statement
InStop == host \in {"stop_put", "stop_loop", "stop_join", "stop_end"}

\* what holds of stop(): the flag is cleared first, the sentinel is put
\* before the loop is touched, the join is not waited for beyond its
\* timeout, and only the first stop() of a run puts a sentinel or touches
\* the loop
StopSignalsOnce ==
    /\ [][lastOp'.op = "stop_begin"
            => /\ ~running'
               /\ host' = IF running THEN "stop_put" ELSE "stop_end"]_vars
    /\ [][host = "stop_put" /\ host' # host
            => /\ message_queue' = Append(message_queue, Sentinel)
               /\ host' = "stop_loop"]_vars
    /\ [][lastOp'.op \in {"stop_put", "stop_loop"} => stops' = 1]_vars
    /\ [](host = "stop_join" /\ ProcessAlive => ENABLED HostStopJoin)

\* C26: stop() clears the flag, puts the sentinel, asks the loop to stop and
\* then joins the thread with a timeout; every stop() that began comes to
\* its end, and a second stop() signals nothing more.
C26_StopSignalsThenJoins ==
    /\ StopSignalsOnce
    /\ [][host = "stop_loop" /\ host' # host
            => /\ host' = "stop_join"
               /\ loop # "none" => loop' = "stopping"]_vars
    /\ [](InStop => ProcessAlive)

\* stop() raises out of call_soon_threadsafe: the thread had ended and
\* closed its loop with _running still set
StopOnClosedLoop ==
    /\ lastOp.op = "stop_loop" /\ lastOp.raised
    /\ host = "stop_raised" /\ rerror = "-"

\* the process left under a stop() whose own request stopped the loop
StopCutByExit ==
    /\ InStop /\ ~ProcessAlive
    /\ rerror = LoopStoppedExc


\* the exit message was handed to send_message and accepted
ExitMessageSent ==
    \E k \in 1..Len(outbox) : outbox[k].kind = "exit" /\ outbox[k].ok

\* the reader's thread is over
ReaderOver == rthread \in {"ended", "exited"}

\* C28: with an exit_msg, a reader stopped by stop() after its datafeed was
\* started has sent the exit message by the time its thread is over, with
\* rooms named and with all rooms.
C28_ExitMessageOnStop ==
    (Truthy(exit_msg) /\ drain # "none" /\ rerror = LoopStoppedExc
        /\ ReaderOver)
    => ExitMessageSent

\* what holds: a reader with an exit_msg and a resolved room whose datafeed
\* ended by itself handed the exit message to send_message before its
\* thread ended
ExitMessageWhenDatafeedEnds ==
    (Truthy(exit_msg) /\ room_ids # {} /\ rthread = "ended")
    => \E k \in 1..Len(outbox) :
          /\ outbox[k].kind = "exit"
          /\ outbox[k].content = exit_content(exit_msg)
          /\ outbox[k].stream_id \in room_ids

\* a reader of all rooms ended with an exit_msg and sent nothing
NoExitMessageForAllRooms ==
    /\ Truthy(exit_msg) /\ rooms = {} /\ rthread = "ended"
    /\ outbox = <<>>


\* _error after an authentication, SSL or missing-file failure
FatalRecorded ==
    { run_except(e) : e \in {AuthExc, SslExc, "FileNotFoundError"} }

\* what holds: the worker that meets the failure records the error and
\* clears _running, and a stop() that comes to its last statement with an
\* error recorded raises that error
FatalErrorRecorded ==
    /\ [][lastOp'.op = "run_raise"
            => /\ rerror' = run_except(lastOp'.exc)
               /\ ~running']_vars
    /\ [][lastOp'.op = "stop" /\ rerror # "-"
            => lastOp'.raised /\ lastOp'.exc = rerror]_vars

\* C29: after an authentication, SSL or missing-file failure the worker has
\* recorded the error and stopped running, and the host is there to call
\* stop(), which raises the recorded error.
C29_FatalErrorSurfaced ==
    /\ FatalErrorRecorded
    /\ [](rerror \in FatalRecorded => ~running /\ ProcessAlive)

\* stop() raised the recorded authentication error: it ran between the
\* recording of the error and os._exit
StopRaisedRecorded ==
    /\ lastOp.op = "stop" /\ lastOp.raised
    /\ lastOp.exc = run_except(AuthExc)
    /\ ProcessAlive

\* the process left before any stop() was called
ExitedBeforeStop ==
    /\ rerror \in FatalRecorded
    /\ ~ProcessAlive /\ stops = 0


----------------------------------------------------------------------------
(* Properties of the mapper's lock. *)

\* a call of the stream service is in flight
InFlight(t) == pc[t].at \in {"search_rooms", "get_room_info"}

\* C31: no thread holds the lock of the directory while a call of
\* search_rooms or get_room_info is in flight, so that get_room_id,
\* get_room_name, register_room and set_im_id of another thread can run
\* during the call.
C31_LockNotHeldAcrossCalls ==
    \A t \in Threads :
        InFlight(t) =>
            /\ LockFree
            /\ \A u \in Threads \ {t} :
                  pc[u].at = "idle" =>
                      /\ ENABLED GetRoomId(u, Foo)
                      /\ ENABLED GetRoomName(u, S1)
                      /\ ENABLED RegisterRoom(u, Foo, S1)
                      /\ ENABLED SetImId(u, Foo, S1)

\* C31 witness: t2 has registered a room while the search_rooms call of t1
\* is in flight.
C31_Witness ==
    /\ pc["t1"].at = "search_rooms"
    /\ lastOp.op = "register_room" /\ lastOp.t = "t2"
    /\ name_to_id # <<>>


\* _error after a failure of the session or of the datafeed
ConnectionFailures ==
    { run_except(e) : e \in FatalExcs \cup {NoConfigExc} }

\* C32: the worker records an error and ends the process only after a
\* failure of the connection (authentication, SSL, missing file, other
\* failure of the session or the datafeed); a stop() of a reader whose
\* datafeed runs (the task of _process_queue was created) leaves _error unset
\* and the process alive.
C32_StopIsNotFatal ==
    (drain # "none" /\ (rerror # "-" \/ ~ProcessAlive))
    => rerror \in ConnectionFailures

\* what holds: without a stop() the fatal path is taken only for a failure
\* of the connection
FatalOnlyByFailureUnlessStopped ==
    (stops = 0 /\ (rerror # "-" \/ ~ProcessAlive))
    => rerror \in ConnectionFailures


----------------------------------------------------------------------------
(* Properties of the cache. *)

\* the operation o writes name_to_id[n]: a registration, or the write-back
\* of a resolution
WritesName(o, n) ==
    \/ o.op \in {"register_room", "set_im_id"} /\ o.key = n
    \/ o.op = "search_rooms_return" /\ o.key = n /\ o.ret # None
    \/ o.op = "get_room_info_return" /\ o.ret = n

\* the operation o writes id_to_name[i]
WritesId(o, i) ==
    \/ o.op \in {"register_room", "set_im_id"} /\ o.val = i
    \/ o.op = "get_room_info_return" /\ o.key = i /\ o.ret # None
    \/ o.op = "search_rooms_return" /\ o.ret = i

\* C33: what a resolution obtained from the collaborator is in the cache
\* when it returns; a lookup of a cached key, sync or async, returns the
\* cached value and starts no call of the collaborator; and the cached
\* value of a key stays until an operation registers that key again
\* (register_room, set_im_id, or the write-back of another resolution).
C33_CacheAside ==
    /\ [][(lastOp'.op = "search_rooms_return" /\ lastOp'.ret # None)
            => get_room_id(name_to_id', lastOp'.key) = lastOp'.ret]_vars
    /\ [][(lastOp'.op = "get_room_info_return" /\ lastOp'.ret # None)
            => get_room_name(id_to_name', lastOp'.key) = lastOp'.ret]_vars
    /\ [][(lastOp'.op \in {"get_room_id", "get_room_id_async"}
             /\ lastOp'.key \in DOMAIN name_to_id)
            => /\ lastOp'.ret = name_to_id[lastOp'.key]
               /\ pc'[lastOp'.t].at \in {"idle", "done"}
               /\ pc'[lastOp'.t].at = "done"
                    => pc'[lastOp'.t].ret = name_to_id[lastOp'.key]]_vars
    /\ [][(lastOp'.op \in {"get_room_name", "get_room_name_async"}
             /\ lastOp'.key \in DOMAIN id_to_name)
            => /\ lastOp'.ret = id_to_name[lastOp'.key]
               /\ pc'[lastOp'.t].at \in {"idle", "done"}
               /\ pc'[lastOp'.t].at = "done"
                    => pc'[lastOp'.t].ret = id_to_name[lastOp'.key]]_vars
    /\ [][\A n \in DOMAIN name_to_id :
            /\ n \in DOMAIN name_to_id'
            /\ name_to_id'[n] # name_to_id[n] => WritesName(lastOp', n)]_vars
    /\ [][\A i \in DOMAIN id_to_name :
            /\ i \in DOMAIN id_to_name'
            /\ id_to_name'[i] # id_to_name[i] => WritesId(lastOp', i)]_vars

\* C33 witness: t1 has the id s1 of Foo from search_rooms, and the async
\* lookup of Foo by t2 that followed was answered s1 from the cache.
C33_Witness ==
    /\ pc["t1"] = Done(Foo, S1)
    /\ lastOp.op = "get_room_id_async" /\ lastOp.t = "t2"
    /\ lastOp.key = Foo /\ lastOp.flag /\ lastOp.ret = S1
    /\ pc["t2"] = Done(Foo, S1)
    /\ name_to_id = Put(<<>>, Foo, S1)


----------------------------------------------------------------------------
(* Further properties of the listener. *)

----------------------------------------------------------------------------
(* Further properties of the reader's life. *)

\* a message stands in the inbound queue ahead of a stop sentinel
MessageAheadOfSentinel ==
    \E j, k \in 1..Len(message_queue) :
        /\ j < k
        /\ ~IsSentinel(message_queue[j])
        /\ IsSentinel(message_queue[k])

BatchDroppedAtSentinel ==
    /\ lastOp.op = "drain_get" /\ lastOp.flag
    /\ drain = "returned" /\ batch # <<>>

\* the task returned at the while test with a message and the sentinel in
\* the queue
QueueLeftAtReturn ==
    /\ drain = "returned" /\ batch = <<>>
    /\ MessageAheadOfSentinel


----------------------------------------------------------------------------
(* format_with_message_ml applied to each text, to MessageML and back. *)

\* longest text escaped in the model
MaxText == 4
\* the characters of the texts: those of "&lt;", "<" and "${"
TextChars == {"&", "l", "t", ";", "<", "$", "{"}
Texts == UNION { [1..n -> TextChars] : n \in 0..MaxText }

\* format_with_message_ml(text, to_message_ml=True) on the text given
FormatToMessageML ==
    /\ lastOp.op = "text"
    /\ lastOp' = Op("to_message_ml", SenderThread, lastOp.key, None,
                    format_with_message_ml(lastOp.key, TRUE), None, "-",
                    FALSE, FALSE)
    /\ UNCHANGED <<dirVars, pc, feedVars, outVars>>

\* format_with_message_ml(escaped, to_message_ml=False) on what the call
\* before returned; key keeps the text that call was given
FormatFromMessageML ==
    /\ lastOp.op = "to_message_ml"
    /\ lastOp' = Op("from_message_ml", SenderThread, lastOp.key, lastOp.ret,
                    format_with_message_ml(lastOp.ret, FALSE), None, "-",
                    FALSE, FALSE)
    /\ UNCHANGED <<dirVars, pc, feedVars, outVars>>

\* a text to escape, nothing else going on
FormatInit ==
    /\ name_to_id = <<>> /\ id_to_name = <<>>
    /\ stream_service = None
    /\ pc = [t \in Threads |-> Idle]
    /\ \E text \in Texts :
          lastOp = Op("text", "-", text, None, None, None, "-", FALSE, FALSE)
    /\ ReaderIdle
    /\ OutIdle

FormatNext ==
    \/ FormatToMessageML
    \/ FormatFromMessageML

SpecFormat == FormatInit /\ [][FormatNext]_vars

----------------------------------------------------------------------------
(* Properties of format_with_message_ml. *)

\* C37: a text escaped to MessageML and unescaped again is the text.
C37_EscapeRoundTrips ==
    lastOp.op = "from_message_ml" => lastOp.ret = lastOp.key

\* what holds: a text without "&" comes back unchanged, and so does a text
\* in which no "&" begins one of the escaped forms
EscapeRoundTripsWithoutEntity ==
    (/\ lastOp.op = "from_message_ml"
     /\ \A k \in 1..Len(lastOp.key) :
           \A p \in 1..Len(MessageMLPairs) :
              ~StartsWith(SubSeq(lastOp.key, k, Len(lastOp.key)),
                          MessageMLPairs[p].msg_ml_version))
    => lastOp.ret = lastOp.key

\* the text "&lt;" came back as "<"
EntityTextUnescaped ==
    /\ lastOp.op = "from_message_ml"
    /\ lastOp.key = <<"&", "l", "t", ";">>
    /\ lastOp.val = <<"&", "#", "3", "8", ";", "l", "t", ";">>
    /\ lastOp.ret = <<"<">>


----------------------------------------------------------------------------
(* One adapter with a reader and a sender: both workers share the mapper   *)
(* of SymphonyAdapter.__init__ and each installs the stream service of its *)
(* own session. The datafeed of the reader may end by itself.              *)

\* the one message ticked: to the room Foo, by name
SharedMessages == { Out(<<>>, <<>>, Foo, Hello, <<>>) }

SharedInit ==
    /\ LifeInit
    /\ config.has_bdk_config
    /\ exit_msg = <<>>

SharedNext ==
    \/ HostStart
    \/ RunLoop
    \/ LifeOpen
    \/ \E room \in SubNames : LifeResolve(room)
    \/ \E rs \in LifeSearchResults : LifeSearchReturn(rs)
    \/ LifeCollect
    \/ LifeListen
    \/ \E how \in {"returned"} : DatafeedEnd(how)
    \/ ExitSkip
    \/ RunEnd
    \/ NodeStart
    \/ \E msg \in SharedMessages : NodeTick(msg)
    \/ WorkerOpen
    \/ WorkerGet
    \/ \E rs \in LifeSearchResults : SearchRoomsReturn(SenderThread, rs)
    \/ \E e \in Excs : SearchRoomsRaise(SenderThread, e)
    \/ SendLookupDone
    \/ SendResolved
    \/ SendMessageReturn
    \/ WorkerSendDone

SpecShared == SharedInit /\ [][SharedNext]_vars

----------------------------------------------------------------------------
(* Properties of the shared stream service. *)

\* the session whose stream service the mapper holds is open: the worker
\* that opened it is inside its `async with` block
SessionOpen(service) ==
    /\ service = ServiceOf("reader")
         => rthread = "alive" /\ rpc \in {"resolving", "listening", "exit"}
    /\ service = ServiceOf("sender") => worker \in {"waiting", "sending"}

\* C39: a resolution goes to the stream service only while the session the
\* service belongs to is open: whenever a thread begins a call of
\* search_rooms or get_room_info, the worker that installed the mapper's
\* stream service has not left its session.
C39_ServiceOfOpenSession ==
    [][\A t \in Threads :
          (pc[t].at = "idle" /\ InFlight(t)') => SessionOpen(stream_service)]_vars

\* what holds: a worker installs the service of its own session while the
\* session is open
InstalledServiceIsOpen ==
    [][lastOp'.op = "set_stream_service" => SessionOpen(stream_service)']_vars

\* the sender began a search through the service of the reader, whose
\* session had ended with its datafeed
SearchThroughClosedSession ==
    /\ pc[SenderThread].at = "search_rooms"
    /\ stream_service = ServiceOf("reader")
    /\ rpc \in {"done", "ended"}


----------------------------------------------------------------------------
(* SymphonyAdapterConfig and SSL verification: configs are made one after  *)
(* the other in one process, and the BDK makes a client Configuration for  *)
(* each connection of a config.                                            *)

\* SymphonyAdapterConfig objects made in one run
MaxConfigs == 2

\* how the BDK config was supplied: bdk_config=, bdk_config_path=, or host
\* and bot_username
ConfigSources == {"bdk_config", "bdk_config_path", "host"}

\* validate_and_build_config: whether _patch_ssl_verify is reached (lines
\* 152-153 and 156-158 return before line 213)
reaches_patch(source, ssl_verify) == source = "host" /\ ~ssl_verify

\* SymphonyAdapterConfig(..., ssl_verify=...): the validator runs; the patch
\* replaces Configuration.__init__ for the whole process (lines 232-238)
NewConfig(source, ssl_verify) ==
    /\ Len(ssl_configs) < MaxConfigs
    /\ ssl_configs' = Append(ssl_configs,
                             [source |-> source, ssl_verify |-> ssl_verify])
    /\ ssl_patched' = (ssl_patched \/ reaches_patch(source, ssl_verify))
    /\ lastOp' = Op("new_config", "host", None, None, None,
                    [source |-> source, ssl_verify |-> ssl_verify], "-",
                    FALSE, reaches_patch(source, ssl_verify))
    /\ UNCHANGED <<dirVars, pc, rooms, todo, room_ids, rpc, message_queue,
                   pushed, events, enqueued, lifeVars, prs, presence_log,
                   outVars>>

\* Configuration.verify_ssl of a client made now: True as the BDK sets it,
\* False once __init__ is the patched one (lines 234-236)
verify_ssl(patched) == ~patched

\* a session of config k connects: the BDK makes the Configuration of its
\* client; flag is its verify_ssl
Connect(k) ==
    /\ k \in 1..Len(ssl_configs)
    /\ lastOp' = Op("connect", "host", None, None, None, ssl_configs[k], "-",
                    FALSE, verify_ssl(ssl_patched))
    /\ UNCHANGED <<dirVars, pc, feedVars, outVars>>

SslNext ==
    \/ \E source \in ConfigSources, ssl_verify \in BOOLEAN :
          NewConfig(source, ssl_verify)
    \/ \E k \in 1..MaxConfigs : Connect(k)

SpecSsl == MentionsInit /\ [][SslNext]_vars

----------------------------------------------------------------------------
(* Properties of SSL verification. *)

\* C38: a connection of a config verifies SSL exactly when that config has
\* ssl_verify=True, however its BDK config was supplied and whatever other
\* configs were made.
C38_SslVerifyOwnConfigOnly ==
    lastOp.op = "connect" => lastOp.flag = lastOp.res.ssl_verify

\* what holds: a config built from host and bot_username with
\* ssl_verify=False connects without verification
HostConfigDisablesVerification ==
    (/\ lastOp.op = "connect"
     /\ lastOp.res.source = "host" /\ ~lastOp.res.ssl_verify)
    => ~lastOp.flag

\* a config made with ssl_verify=True connects without verification after
\* another config was made with ssl_verify=False
VerificationDisabledByOtherConfig ==
    /\ lastOp.op = "connect"
    /\ lastOp.res.ssl_verify /\ ~lastOp.flag

\* a config made from a bdk_config with ssl_verify=False connects with
\* verification
SslVerifyIgnoredForBdkConfig ==
    /\ lastOp.op = "connect"
    /\ lastOp.res.source = "bdk_config"
    /\ ~lastOp.res.ssl_verify /\ lastOp.flag


====
